---- MODULE Spec2Model ----
(***************************************************************************)
(* Foundry: the pipeline control and concurrency layer.                    *)
(*                                                                         *)
(* Three state machines share this module:                                 *)
(*   Spec       the stage-loop controllers, FoundryPipeline.run            *)
(*              (pipelines/foundry_pipeline.py, on PipelineState) and      *)
(*              MainAgent.run_pipeline (agents/main_agent.py);             *)
(*   SpecDedup  the perceptual-hash duplicate index of MinerService /      *)
(*              MinerAgent / CuratorAgent;                                 *)
(*   SpecRL     the token-bucket RateLimiter with concurrent callers.      *)
(* Each specification leaves the variables of the other two at their       *)
(* initial values.                                                         *)
(***************************************************************************)
EXTENDS Integers, Sequences, FiniteSets, TLC

\* ------------------------------------------------------------ bounds

\* Largest target_count a run is started with.
MaxTarget == 3

\* Width of a perceptual hash in bits (imagehash.phash gives 64).
HashBits == 5
\* Largest max_images / max_count of a mine or curate call, and the largest
\* number of urls / images a call is given beyond it.
MaxImages == 2
\* Number of threads that call RateLimiter.wait_for_token.
NumThreads == 2
\* The clock stops at MaxTime ticks.
MaxTime == 6
\* Largest number of items handed to one annotate_parallel call.
MaxItems == 4
\* Pool width (num_workers; the program uses 3).
MaxWorkers == 2
\* Largest max_iterations of a refinement loop (default 3; 2 from the features).
MaxRounds == 3
\* Largest number of records in one annotation response.
MaxRecords == 2
\* Clock ticks in which one token is refilled (1 / rate, in ticks).
TicksPerToken == 3
\* Largest number of pieces a model response is put together from.
MaxParts == 3
\* Results of one search request (Google Custom Search allows 10 per page).
PageSize == 2
\* Largest number of requests one search makes.
MaxPages == 2
\* Largest number of mine calls of one run.
MaxCalls == 3
\* Largest max_retries of an AnnotatorService (default 3).
MaxRetries == 3
\* Largest number of wait_for_token calls of a run checked for progress.
MaxTokens == 3
\* Largest number of runs of one FoundryBYODPipeline.
MaxRuns == 2

\* ------------------------------------------------- program constants

\* if img_hash - seen_hash < 5:  # Hamming distance threshold
Threshold == 5

\* FoundryPipeline.run: max_iterations = 20
max_iterations == 20
\* MainAgent.run_pipeline: max_loops = 5  # Safety break
max_loops == 5

VARIABLES
    \* ---- controller (FoundryPipeline.run / MainAgent.run_pipeline)
    ctl,            \* which controller runs: "FoundryPipeline" or "MainAgent"
    target_count,   \* PipelineState.target_count / count
    pc,             \* position of the run
    iteration,      \* iteration (= state.iteration) / loop_count
    dataset,        \* state.dataset / final_dataset: the set of its keys
    current_count,  \* PipelineState.current_count (FoundryPipeline only)
    needed,         \* target - collected, as computed at the top of the iteration
    request_count,  \* the count handed to miner.mine in this iteration
    mined,          \* mined_paths / mined_images of this iteration
    curated,        \* curated_paths / curated_images of this iteration
    annotations,    \* keys of the annotations dict, in dict (insertion) order
    next_id,        \* number of distinct items discovery has produced so far
    caught,         \* FoundryPipeline: the except clause ran ("Pipeline failed")
    log_error,      \* MainAgent: "Failed to create dataset" was logged
    saved,          \* the dataset was written by the engineer (output exists)
    ret,            \* the value the run returned
    \* ---- history of the run (read by the properties only)
    mine_calls,     \* number of discovery calls made
    empty_mines,    \* number of discovery calls that produced no item
    yield_sum,      \* running sum of the annotated yields
    zero_yield,     \* some iteration so far annotated nothing
    reached_at,     \* iteration at which yield_sum first reached target_count
    \* ---- duplicate index (MinerService.mine / CuratorAgent.curate)
    d_owner,        \* whose index this is: "MinerService" or "CuratorAgent"
    seen_hashes,    \* self.seen_hashes: the fingerprints accepted so far
    d_pc,           \* "idle", or "loop" inside a mine / curate call
    d_max,          \* max_images / max_count of the call (NoCap for None)
    d_left,         \* urls / image_paths the for loop has not reached yet
    d_out,          \* len(saved_paths) / len(kept_images) of the call
    d_dups,         \* history: the current call turned a candidate away as a duplicate
    d_last,         \* history: the last candidate's outcome and whether it was within 4 of the index
    d_removed,      \* the download folder: the file of an accepted item has been removed
    \* ---- RateLimiter (utils/rate_limiter.py)
    tokens,         \* self.tokens, in units of 1/TicksPerToken of a token
    last_update,    \* self.last_update
    lock,           \* self.lock: 0 when free, else the thread holding it
    clock,          \* time.time(), in ticks
    r_pc,           \* position of each thread in wait_for_token
    wake_at,        \* end of each thread's time.sleep(wait_time)
    granted,        \* history: number of returns of wait_for_token
    grant_log,      \* history: per return, the time the limiter read and the time of the return
    r_slept,        \* history: per thread, the sleeps of its current call
    \* ---- ParallelAnnotatorAgent.annotate_parallel and the merge that follows
    a_quality,      \* self.quality_loop is set
    a_workers,      \* self.num_workers
    a_pc,           \* position of the caller: "idle", "collect", "returned", "merged"
    a_n,            \* len(image_paths) of the call
    a_status,       \* per submitted item: "queued", "running", "done", "collected"
    a_outcome,      \* per submitted item: what its task came to
    a_results,      \* results / annotations: the items entered, in insertion order
    a_verdict,      \* history: per collected item, what the validator holds of its boxes
    \* ---- AnnotationRefinementLoop.annotate_with_refinement
    q_max,          \* self.max_iterations
    q_pc,           \* position of the call: "idle", "loop", "finish", "done"
    q_iteration,    \* iteration
    q_best,         \* best_annotation: 0 for None, else the round that produced it
    q_history,      \* refinement_history
    q_ret,          \* how the call ended and, for a result, its final_status
    q_requests,     \* the generate_content and validate calls made, in order
    q_candidates,   \* the rounds that built a current_annotation
    \* ---- validation of one item's parsed annotation response
    v_path,         \* which code annotates: "AnnotatorService", "ParallelAnnotatorAgent",
                    \* "AnnotatorAgent" or "AnnotationRefinementLoop"
    v_data,         \* data / bboxes: the parsed response, a list of records
    v_pc,           \* "parsed", "annotated", "merged"
    v_result,       \* what the annotation of the item returned
    v_dataset,      \* the dataset entries written for the item: their "bboxes"
    \* ---- calculate_bbox
    b_box,          \* normalized_bbox
    b_W,            \* image_width
    b_H,            \* image_height
    b_out,          \* what the calls made so far returned
    \* ---- AnnotatorService._parse_json_robust
    j_text,         \* the response text, as its tokens
    j_pc,           \* "idle", "returned"
    j_ret,          \* the strategy that returned and what it returned
    \* ---- google_search_images and the miners
    s_owner,        \* "MinerService" or "MinerAgent"
    search_index,   \* self.search_index
    s_fetched,      \* the result positions the search requests have returned
    s_twice,        \* the result positions returned more than once
    s_hard,         \* the search API raised, or the keys were missing, in the last call
    s_run,          \* "running", or "aborted" once the caller left its loop
    s_ret,          \* status and count of the last result of mine
    s_calls,        \* number of mine calls so far
    \* ---- AnnotatorService.annotate
    t_max,          \* self.max_retries
    t_n,            \* len(image_paths) of the call
    t_i,            \* the image the loop is at
    t_attempt,      \* attempt
    t_pc,           \* "idle", "open", "attempt", "returned"
    t_log,          \* per image: the attempts made and the sleeps, in order
    t_status,       \* per image: "none", "annotated", "failed", "error"
    t_annotations,  \* the images that have an entry in annotations
    \* ---- FoundryBYODPipeline.run and the metrics collector
    y_metrics,      \* self.metrics is set (metrics enabled)
    y_pc,           \* position of run: "idle", "list", "annotate", "save", "returned", "raised"
    y_runs,         \* calls of run so far
    y_found,        \* len(image_paths)
    y_annotated,    \* len(annotations)
    y_started,      \* calls of start_pipeline (metrics["pipeline_runs"])
    y_ended         \* calls of end_pipeline

pvars == <<ctl, target_count, pc, iteration, dataset, current_count, needed,
           request_count, mined, curated, annotations, next_id, caught,
           log_error, saved, ret, mine_calls, empty_mines, yield_sum,
           zero_yield, reached_at>>

dvars == <<d_owner, seen_hashes, d_pc, d_max, d_left, d_out, d_dups, d_last, d_removed>>

rvars == <<tokens, last_update, lock, clock, r_pc, wake_at, granted, grant_log, r_slept>>
avars == <<a_quality, a_workers, a_pc, a_n, a_status, a_outcome, a_results, a_verdict>>
qvars == <<q_max, q_pc, q_iteration, q_best, q_history, q_ret, q_requests, q_candidates>>
vvars == <<v_path, v_data, v_pc, v_result, v_dataset>>
bvars == <<b_box, b_W, b_H, b_out>>
jvars == <<j_text, j_pc, j_ret>>
svars == <<s_owner, search_index, s_fetched, s_twice, s_hard, s_run, s_ret, s_calls>>
tvars == <<t_max, t_n, t_i, t_attempt, t_pc, t_log, t_status, t_annotations>>

yvars == <<y_metrics, y_pc, y_runs, y_found, y_annotated, y_started, y_ended>>
vars == <<pvars, dvars, rvars, avars, qvars, vvars, bvars, jvars, svars, tvars, yvars>>

\* What each component leaves alone.
NotController == <<dvars, rvars, avars, qvars, vvars, bvars, jvars, svars, tvars, yvars>>
NotDedup == <<pvars, rvars, avars, qvars, vvars, bvars, jvars, svars, tvars, yvars>>
NotLimiter == <<pvars, dvars, avars, qvars, vvars, bvars, jvars, svars, tvars, yvars>>
NotPool == <<dvars, rvars, qvars, vvars, bvars, jvars, svars, tvars, yvars>>
NotQuality == <<pvars, dvars, rvars, avars, vvars, bvars, jvars, svars, tvars, yvars>>
NotValidation == <<pvars, dvars, rvars, avars, qvars, bvars, jvars, svars, tvars, yvars>>
NotBbox == <<pvars, dvars, rvars, avars, qvars, vvars, jvars, svars, tvars, yvars>>
NotParse == <<pvars, dvars, rvars, avars, qvars, vvars, bvars, svars, tvars, yvars>>
NotSearch == <<pvars, dvars, rvars, avars, qvars, vvars, bvars, jvars, tvars, yvars>>
NotRetry == <<pvars, dvars, rvars, avars, qvars, vvars, bvars, jvars, svars, yvars>>
NotByod == <<pvars, dvars, rvars, avars, qvars, vvars, bvars, jvars, svars, tvars>>


\* ------------------------------------------------------------ helpers

Min(a, b) == IF a < b THEN a ELSE b
Max(a, b) == IF a > b THEN a ELSE b

\* The subsequence of s at the index set I, in the order of s.
SubSeqAt(s, I) ==
    LET F[i \in 0..Len(s)] ==
            IF i = 0 THEN <<>>
            ELSE IF i \in I THEN Append(F[i - 1], s[i]) ELSE F[i - 1]
    IN  F[Len(s)]

SubSeqs(s) == {SubSeqAt(s, I) : I \in SUBSET (1..Len(s))}

Range(s) == {s[i] : i \in 1..Len(s)}

\* Every ordering of every subset of the elements of s.
Orderings(s) ==
    {t \in UNION {[1..n -> Range(s)] : n \in 0..Len(s)} :
        \A i, j \in 1..Len(t) : i # j => t[i] # t[j]}

\* ------------------------------------------------ PipelineState (adk_state.py)

\* Variant of should_stop that only stops once the target is exceeded.
should_stop_strict(cnt, target) == cnt > target

\* PipelineState.should_stop
should_stop(cnt, target) == cnt >= target

\* PipelineState.get_needed_count
get_needed_count(cnt, target) == Max(0, target - cnt)

\* Variant of add_annotations without the current_count < target_count test.
RECURSIVE add_annotations_uncapped(_, _, _, _)
add_annotations_uncapped(ds, cnt, anns, target) ==
    IF anns = <<>> THEN <<ds, cnt>>
    ELSE add_annotations_uncapped(ds \cup {Head(anns)}, cnt + 1, Tail(anns), target)

\* PipelineState.add_annotations: the for loop over annotations.items().
\* Returns the pair <<dataset, current_count>> after the loop.
RECURSIVE add_annotations(_, _, _, _)
add_annotations(ds, cnt, anns, target) ==
    IF anns = <<>> THEN <<ds, cnt>>
    ELSE IF cnt < target
         THEN add_annotations(ds \cup {Head(anns)}, cnt + 1, Tail(anns), target)
         ELSE <<ds, cnt>>

\* MainAgent.run_pipeline: "Add to final dataset" loop.
RECURSIVE ma_merge(_, _, _)
ma_merge(ds, anns, count) ==
    IF anns = <<>> THEN ds
    ELSE IF Cardinality(ds) < count
         THEN ma_merge(ds \cup {Head(anns)}, Tail(anns), count)
         ELSE ds

\* ------------------------------------------------------------ stages

\* MinerService.mine / MinerAgent.mine as seen by the controller: at most
\* max_images new items (the loop breaks at len(saved_paths) >= max_images).
MineResults(max_images) ==
    {[i \in 1..m |-> next_id + i] : m \in 0..max_images}

\* CuratorAgent.curate: the kept images are a subsequence of image_paths, and
\* the loop stops once len(kept_images) >= max_count.
CurateResults(image_paths, max_count) ==
    {k \in SubSeqs(image_paths) : Len(k) <= max_count}

\* AnnotatorService.annotate: one dict entry per image that succeeded, inserted
\* in the order of image_paths.
AnnotateResults(image_paths) == SubSeqs(image_paths)

\* ParallelAnnotatorAgent.annotate_parallel: entries are inserted as futures
\* complete, in any order.
AnnotateParallelResults(image_paths) == Orderings(image_paths)

\* ------------------------------------------------------------ controller

Collected == IF ctl = "FoundryPipeline" THEN current_count ELSE Cardinality(dataset)

NoResult == [status |-> "None", images_collected |-> 0, target |-> 0,
             iterations |-> 0, output_path |-> FALSE]

PInit ==
    /\ ctl \in {"FoundryPipeline", "MainAgent"}
    /\ target_count \in 1..MaxTarget
    /\ pc = "loop"
    /\ iteration = 0
    /\ dataset = {}
    /\ current_count = 0
    /\ needed = 0
    /\ request_count = 0
    /\ mined = <<>>
    /\ curated = <<>>
    /\ annotations = <<>>
    /\ next_id = 0
    /\ caught = FALSE
    /\ log_error = FALSE
    /\ saved = FALSE
    /\ ret = NoResult
    /\ mine_calls = 0
    /\ empty_mines = 0
    /\ yield_sum = 0
    /\ zero_yield = FALSE
    /\ reached_at = 0

\* FoundryPipeline.run: the while condition.
FP_Continue == ~should_stop(current_count, target_count) /\ iteration < max_iterations

\* Variant of FP_Request that asks for exactly n.
FP_Request_exact(n) == n

\* FoundryPipeline.run: the count asked of miner.mine.
\* needed = state.get_needed_count() * 2  # Request 2x to account for filtering
FP_Request(n) == n * 2

\* FoundryPipeline.run: where the run goes when a stage comes back empty.
\* if not mined_paths: break
FP_OnNoMined == "finish"
\* if not curated_paths: break
FP_OnNoCurated == "finish"
\* if not annotations: break
FP_OnNoAnnotations == "finish"

\* while not state.should_stop() and iteration < max_iterations: ... needed = ...
FP_Iterate ==
    /\ ctl = "FoundryPipeline" /\ pc = "loop"
    /\ UNCHANGED NotController
    /\ IF FP_Continue
       THEN /\ iteration' = iteration + 1
            /\ needed' = get_needed_count(current_count, target_count)
            /\ request_count' = FP_Request(get_needed_count(current_count, target_count))
            /\ pc' = "mine"
       ELSE /\ pc' = "finish"
            /\ UNCHANGED <<iteration, needed, request_count>>
    /\ mined' = <<>> /\ curated' = <<>> /\ annotations' = <<>>
    /\ UNCHANGED <<ctl, target_count, dataset, current_count, next_id, caught,
                   log_error, saved, ret, mine_calls, empty_mines, yield_sum,
                   zero_yield, reached_at>>

\* mine_result = miner.mine(self.query, needed); if not mined_paths: break
FP_Mine ==
    /\ ctl = "FoundryPipeline" /\ pc = "mine"
    /\ UNCHANGED NotController
    /\ mine_calls' = mine_calls + 1
    /\ \/ \E r \in MineResults(request_count) :
            /\ mined' = r
            /\ next_id' = next_id + Len(r)
            /\ empty_mines' = IF r = <<>> THEN empty_mines + 1 ELSE empty_mines
            /\ zero_yield' = (zero_yield \/ r = <<>>)
            /\ pc' = IF r = <<>> THEN FP_OnNoMined ELSE "curate"
            /\ UNCHANGED caught
       \/ \* the call raises: except Exception
          /\ caught' = TRUE
          /\ pc' = "finish"
          /\ UNCHANGED <<mined, next_id, empty_mines, zero_yield>>
    /\ UNCHANGED <<ctl, target_count, iteration, dataset, current_count, needed,
                   request_count, curated, annotations, log_error, saved, ret,
                   yield_sum, reached_at>>

\* curated_paths = curator.curate(self.query, mined_paths); if not curated_paths: break
FP_Curate ==
    /\ ctl = "FoundryPipeline" /\ pc = "curate"
    /\ UNCHANGED NotController
    /\ \/ \E k \in CurateResults(mined, Len(mined)) :
            /\ curated' = k
            /\ zero_yield' = (zero_yield \/ k = <<>>)
            /\ pc' = IF k = <<>> THEN FP_OnNoCurated ELSE "annotate"
            /\ UNCHANGED caught
       \/ /\ caught' = TRUE
          /\ pc' = "finish"
          /\ UNCHANGED <<curated, zero_yield>>
    /\ UNCHANGED <<ctl, target_count, iteration, dataset, current_count, needed,
                   request_count, mined, annotations, next_id, log_error, saved,
                   ret, mine_calls, empty_mines, yield_sum, reached_at>>

\* The yield history after an iteration whose annotation stage returned n entries.
YieldHistory(n) ==
    /\ yield_sum' = Min(yield_sum + n, target_count)
    /\ zero_yield' = (zero_yield \/ n = 0)
    /\ reached_at' = IF reached_at = 0 /\ yield_sum + n >= target_count
                     THEN iteration ELSE reached_at

\* annotations = annotator.annotate(...); if not annotations: break
FP_Annotate ==
    /\ ctl = "FoundryPipeline" /\ pc = "annotate"
    /\ UNCHANGED NotController
    /\ \/ \E a \in AnnotateResults(curated) :
            /\ annotations' = a
            /\ YieldHistory(Len(a))
            /\ pc' = IF a = <<>> THEN FP_OnNoAnnotations ELSE "merge"
            /\ UNCHANGED caught
       \/ /\ caught' = TRUE
          /\ pc' = "finish"
          /\ UNCHANGED <<annotations, yield_sum, zero_yield, reached_at>>
    /\ UNCHANGED <<ctl, target_count, iteration, dataset, current_count, needed,
                   request_count, mined, curated, next_id, log_error, saved, ret,
                   mine_calls, empty_mines>>

\* should_stop = state.add_annotations(annotations); if should_stop: break
FP_AddAnnotations ==
    /\ ctl = "FoundryPipeline" /\ pc = "merge"
    /\ UNCHANGED NotController
    /\ LET r == add_annotations(dataset, current_count, annotations, target_count)
       IN  /\ dataset' = r[1]
           /\ current_count' = r[2]
           /\ pc' = IF should_stop(r[2], target_count) THEN "finish" ELSE "loop"
    /\ UNCHANGED <<ctl, target_count, iteration, needed, request_count, mined,
                   curated, annotations, next_id, caught, log_error, saved, ret,
                   mine_calls, empty_mines, yield_sum, zero_yield, reached_at>>

\* self.dataset = state.dataset; if self.dataset: output_path = self._save_dataset();
\* return {"status": "success", ...}.  _save_dataset runs outside the try block.
FP_Finish ==
    /\ ctl = "FoundryPipeline" /\ pc = "finish"
    /\ UNCHANGED NotController
    /\ \/ /\ saved' = (dataset # {})
          /\ ret' = [status |-> "success",
                     images_collected |-> Cardinality(dataset),
                     target |-> target_count,
                     iterations |-> iteration,
                     output_path |-> (dataset # {})]
          /\ pc' = "done"
       \/ \* engineer.process_item / engineer.save raises
          /\ dataset # {}
          /\ pc' = "raised"
          /\ UNCHANGED <<saved, ret>>
    /\ UNCHANGED <<ctl, target_count, iteration, dataset, current_count, needed,
                   request_count, mined, curated, annotations, next_id, caught,
                   log_error, mine_calls, empty_mines, yield_sum, zero_yield,
                   reached_at>>

\* Variant of MA_Continue without the safety break.
MA_Continue_unbounded == Cardinality(dataset) < target_count

\* MainAgent.run_pipeline: the while condition.
MA_Continue == Cardinality(dataset) < target_count /\ iteration < max_loops

\* MainAgent.run_pipeline: request_count = needed
MA_Request(n) == n

\* MainAgent.run_pipeline: where the run goes when a stage comes back empty.
MA_OnNoMined_retry == "loop"
MA_OnNoCurated_break == "finish"
\* if mine_result["status"] == "error" or not mine_result.get("data"): break
MA_OnNoMined == "finish"
\* if not curated_images: continue
MA_OnNoCurated == "loop"

\* while len(final_dataset) < count and loop_count < max_loops: loop_count += 1 ...
MA_Iterate ==
    /\ ctl = "MainAgent" /\ pc = "loop"
    /\ UNCHANGED NotController
    /\ IF MA_Continue
       THEN /\ iteration' = iteration + 1
            /\ needed' = target_count - Cardinality(dataset)
            /\ request_count' = MA_Request(target_count - Cardinality(dataset))
            /\ pc' = "mine"
       ELSE /\ pc' = "finish"
            /\ UNCHANGED <<iteration, needed, request_count>>
    /\ mined' = <<>> /\ curated' = <<>> /\ annotations' = <<>>
    /\ UNCHANGED <<ctl, target_count, dataset, current_count, next_id, caught,
                   log_error, saved, ret, mine_calls, empty_mines, yield_sum,
                   zero_yield, reached_at>>

\* mine_result = self.miner.mine(query, max_images=request_count)
\* if mine_result["status"] == "error" or not mine_result.get("data"): break
MA_Mine ==
    /\ ctl = "MainAgent" /\ pc = "mine"
    /\ UNCHANGED NotController
    /\ mine_calls' = mine_calls + 1
    /\ \E r \in MineResults(request_count) :
            /\ mined' = r
            /\ next_id' = next_id + Len(r)
            /\ empty_mines' = IF r = <<>> THEN empty_mines + 1 ELSE empty_mines
            /\ zero_yield' = (zero_yield \/ r = <<>>)
            /\ pc' = IF r = <<>> THEN MA_OnNoMined ELSE "curate"
    /\ UNCHANGED <<ctl, target_count, iteration, dataset, current_count, needed,
                   request_count, curated, annotations, caught, log_error, saved,
                   ret, yield_sum, reached_at>>

\* curated_images = self.curator.curate(query, mined_images, max_count=needed)
\* if not curated_images: continue
MA_Curate ==
    /\ ctl = "MainAgent" /\ pc = "curate"
    /\ UNCHANGED NotController
    /\ \E k \in CurateResults(mined, needed) :
            /\ curated' = k
            /\ zero_yield' = (zero_yield \/ k = <<>>)
            /\ pc' = IF k = <<>> THEN MA_OnNoCurated ELSE "annotate"
    /\ UNCHANGED <<ctl, target_count, iteration, dataset, current_count, needed,
                   request_count, mined, annotations, next_id, caught, log_error,
                   saved, ret, mine_calls, empty_mines, yield_sum, reached_at>>

\* if len(curated_images) > 1: annotate_parallel(...) else: the quality loop on
\* the single image, or self.annotator.annotate(query, curated_images)
MA_Annotate ==
    /\ ctl = "MainAgent" /\ pc = "annotate"
    /\ UNCHANGED NotController
    /\ \E a \in (IF Len(curated) > 1 THEN AnnotateParallelResults(curated)
                                     ELSE AnnotateResults(curated)) :
            /\ annotations' = a
            /\ YieldHistory(Len(a))
    /\ pc' = "merge"
    /\ UNCHANGED <<ctl, target_count, iteration, dataset, current_count, needed,
                   request_count, mined, curated, next_id, caught, log_error,
                   saved, ret, mine_calls, empty_mines>>

\* for filename, data in annotations.items(): if len(final_dataset) < count: ...
MA_Merge ==
    /\ ctl = "MainAgent" /\ pc = "merge"
    /\ UNCHANGED NotController
    /\ dataset' = ma_merge(dataset, annotations, target_count)
    /\ pc' = "loop"
    /\ UNCHANGED <<ctl, target_count, iteration, current_count, needed,
                   request_count, mined, curated, annotations, next_id, caught,
                   log_error, saved, ret, mine_calls, empty_mines, yield_sum,
                   zero_yield, reached_at>>

\* if not final_dataset: logger.error("Failed to create dataset"); return
\* else: engineer.process_item(...); engineer.save()
MA_Finish ==
    /\ ctl = "MainAgent" /\ pc = "finish"
    /\ UNCHANGED NotController
    /\ \/ /\ dataset = {}
          /\ log_error' = TRUE
          /\ pc' = "done"
          /\ UNCHANGED saved
       \/ /\ dataset # {}
          /\ saved' = TRUE
          /\ pc' = "done"
          /\ UNCHANGED log_error
       \/ \* engineer.process_item / engineer.save raises: nothing catches it
          /\ dataset # {}
          /\ pc' = "raised"
          /\ UNCHANGED <<saved, log_error>>
    /\ ret' = NoResult
    /\ UNCHANGED <<ctl, target_count, iteration, dataset, current_count, needed,
                   request_count, mined, curated, annotations, next_id, caught,
                   mine_calls, empty_mines, yield_sum, zero_yield, reached_at>>

PNext == \/ FP_Iterate \/ FP_Mine \/ FP_Curate \/ FP_Annotate
         \/ FP_AddAnnotations \/ FP_Finish
         \/ MA_Iterate \/ MA_Mine \/ MA_Curate \/ MA_Annotate
         \/ MA_Merge \/ MA_Finish

\* ------------------------------------------------------------ duplicate index

\* A fingerprint is the set of the bit positions that are 1.
Hashes == SUBSET (1..HashBits)

\* max_count=None of CuratorAgent.curate.
NoCap == -1

\* imagehash: img_hash - seen_hash, the number of differing bits.
Hamming(a, b) == Cardinality((a \ b) \cup (b \ a))

\* Variant of IsDuplicate that also turns away a fingerprint at the threshold.
IsDuplicate_inclusive(h, seen) == \E i \in 1..Len(seen) : Hamming(h, seen[i]) <= Threshold

\* Variant of IsDuplicate that only recognises identical fingerprints.
IsDuplicate_exact(h, seen) == \E i \in 1..Len(seen) : h = seen[i]

\* for seen_hash in self.seen_hashes: if img_hash - seen_hash < 5: is_duplicate = True
IsDuplicate(h, seen) == \E i \in 1..Len(seen) : Hamming(h, seen[i]) < Threshold

\* Some fingerprint of the index is within 4 of h (img_hash - seen_hash <= 4).
Nearby(h, seen) == \E i \in 1..Len(seen) : Hamming(h, seen[i]) <= 4

\* What became of a candidate, and whether a fingerprint of the index was
\* within 4 of its own.
Outcome(what, near) == [outcome |-> what, near |-> near]

\* The two miners: MinerService.mine and MinerAgent.mine.
Miners == {"MinerService", "MinerAgent"}

\* Variant of CapReached in which the loops never break at the cap.
CapReached_never == FALSE

\* if len(saved_paths) >= max_images: break      (MinerService.mine)
\* if count >= max_images: break                 (MinerAgent.mine)
\* if max_count is not None and len(kept_images) >= max_count: break
CapReached == d_max # NoCap /\ d_out >= d_max

DInit ==
    /\ d_owner \in {"MinerService", "MinerAgent", "CuratorAgent"}
    /\ seen_hashes = <<>>
    /\ d_pc = "idle"
    /\ d_max = 0
    /\ d_left = 0
    /\ d_out = 0
    /\ d_dups = FALSE
    /\ d_last = Outcome("none", FALSE)
    /\ d_removed = FALSE

\* The index while another component is being checked.
DQuiet == d_owner = "MinerService" /\ DInit

\* mine(query, max_images) is called.  For MinerService google_search_images
\* returns at most num_images urls (result_urls = image_urls[:num_images]);
\* for MinerAgent the urls are read from the agent's answer, any number.
D_Mine_Call ==
    /\ d_owner \in Miners /\ d_pc = "idle"
    /\ UNCHANGED NotDedup
    /\ \E max_images \in 1..MaxImages :
       \E n \in 0..(IF d_owner = "MinerService" THEN max_images ELSE MaxImages + 1) :
          /\ d_max' = max_images
          /\ d_left' = n
    /\ d_out' = 0
    /\ d_pc' = "loop"
    /\ d_dups' = FALSE
    /\ d_last' = Outcome("none", FALSE)
    /\ UNCHANGED <<d_owner, seen_hashes, d_removed>>

\* A download with the bytes of an accepted item gets that item's file name
\* (save_image names the file by the md5 of the content) and its fingerprint;
\* any other download gets a file of its own.
SameFileAsAccepted(img_hash, seen) ==
    IF \E i \in 1..Len(seen) : seen[i] = img_hash THEN BOOLEAN ELSE {FALSE}

\* if is_duplicate: os.remove(saved_path): the file at saved_path is gone, and
\* it is the file of an accepted item when the two have the same name.
RemoveDuplicate(removed, same_file) == removed \/ same_file

\* The downloads the duplicate test turns away, by what matters of them:
\* whether a fingerprint of the index is within 4 of theirs, and whether they
\* have the bytes of an accepted item.
TurnedAway(seen) ==
    UNION {{<<Nearby(h, seen), same_file>> : same_file \in SameFileAsAccepted(h, seen)} :
              h \in {x \in Hashes : IsDuplicate(x, seen)}}

\* One pass of "for url in urls:" in MinerService.mine / MinerAgent.mine.
D_Mine_Url ==
    /\ d_owner \in Miners /\ d_pc = "loop"
    /\ UNCHANGED NotDedup
    /\ d_left > 0 /\ ~CapReached
    /\ d_left' = d_left - 1
    /\ \/ \* save_image returned None, or Image.open / phash raised
          /\ d_last' = Outcome("failed", FALSE)
          /\ UNCHANGED <<seen_hashes, d_out, d_dups, d_removed>>
       \/ \* is_duplicate: os.remove(saved_path); continue
          \E c \in TurnedAway(seen_hashes) :
            /\ d_dups' = TRUE
            /\ d_last' = Outcome("duplicate", c[1])
            /\ d_removed' = RemoveDuplicate(d_removed, c[2])
            /\ UNCHANGED <<seen_hashes, d_out>>
       \/ \* not a duplicate: the fingerprint and the path are appended
          \E img_hash \in Hashes :
            /\ ~IsDuplicate(img_hash, seen_hashes)
            /\ seen_hashes' = Append(seen_hashes, img_hash)
            /\ d_out' = d_out + 1
            /\ d_last' = Outcome("accepted", Nearby(img_hash, seen_hashes))
            /\ UNCHANGED <<d_dups, d_removed>>
    /\ UNCHANGED <<d_owner, d_pc, d_max>>

\* The for loop of mine is over: the call returns saved_paths.
D_Mine_Return ==
    /\ d_owner \in Miners /\ d_pc = "loop"
    /\ UNCHANGED NotDedup
    /\ (d_left = 0 \/ CapReached)
    /\ d_pc' = "idle"
    /\ UNCHANGED <<d_owner, seen_hashes, d_max, d_left, d_out, d_dups, d_last, d_removed>>

\* CuratorAgent.curate(query, image_paths, max_count) is called.
D_Curate_Call ==
    /\ d_owner = "CuratorAgent" /\ d_pc = "idle"
    /\ UNCHANGED NotDedup
    /\ d_max' \in {NoCap} \cup (1..MaxImages)
    /\ d_left' \in 0..(MaxImages + 1)
    /\ d_out' = 0
    /\ d_pc' = "loop"
    /\ d_dups' = FALSE
    /\ d_last' = Outcome("none", FALSE)
    /\ UNCHANGED <<d_owner, seen_hashes, d_removed>>

\* One pass of "for img_path in image_paths:" in CuratorAgent.curate.  The
\* fingerprint is appended before the model is asked.
D_Curate_Image ==
    /\ d_owner = "CuratorAgent" /\ d_pc = "loop"
    /\ UNCHANGED NotDedup
    /\ d_left > 0 /\ ~CapReached
    /\ d_left' = d_left - 1
    /\ \/ \* Image.open / phash raised
          /\ d_last' = Outcome("failed", FALSE)
          /\ UNCHANGED <<seen_hashes, d_out, d_dups>>
       \/ \* is_duplicate: continue
          \E c \in TurnedAway(seen_hashes) :
            /\ d_dups' = TRUE
            /\ d_last' = Outcome("duplicate", c[1])
            /\ UNCHANGED <<seen_hashes, d_out>>
       \/ \* not a duplicate: the fingerprint is appended, then the model is asked
          \E img_hash \in Hashes :
            /\ ~IsDuplicate(img_hash, seen_hashes)
            /\ seen_hashes' = Append(seen_hashes, img_hash)
            /\ UNCHANGED d_dups
            /\ \/ \* "YES" in answer
                  /\ d_out' = d_out + 1
                  /\ d_last' = Outcome("accepted", Nearby(img_hash, seen_hashes))
               \/ \* another answer, no response, or generate_content raised
                  /\ d_last' = Outcome("rejected", Nearby(img_hash, seen_hashes))
                  /\ UNCHANGED d_out
    /\ UNCHANGED <<d_owner, d_pc, d_max, d_removed>>

\* The for loop of CuratorAgent.curate is over: the call returns kept_images.
D_Curate_Return ==
    /\ d_owner = "CuratorAgent" /\ d_pc = "loop"
    /\ UNCHANGED NotDedup
    /\ (d_left = 0 \/ CapReached)
    /\ d_pc' = "idle"
    /\ UNCHANGED <<d_owner, seen_hashes, d_max, d_left, d_out, d_dups, d_last, d_removed>>

DNext == \/ D_Mine_Call \/ D_Mine_Url \/ D_Mine_Return
         \/ D_Curate_Call \/ D_Curate_Image \/ D_Curate_Return

\* The controller at rest while another component is being checked.
PQuiet == ctl = "FoundryPipeline" /\ target_count = 1 /\ PInit

\* --------------------------------------------------------------- RateLimiter

Threads == 1..NumThreads

\* self.tokens = 1.0 and the cap "if self.tokens > 1.0: self.tokens = 1.0".
One == TicksPerToken

\* A limiter whose lock never excludes anybody.
LockFree_none == TRUE

\* threading.Lock: "with self.lock:" enters only when nobody holds it.
LockFree == lock = 0

\* RateLimiter.__init__
RInit ==
    /\ tokens = One
    /\ last_update = 0
    /\ lock = 0
    /\ clock = 0
    /\ r_pc = [t \in Threads |-> "idle"]
    /\ wake_at = [t \in Threads |-> 0]
    /\ granted = 0
    /\ grant_log = <<>>
    /\ r_slept = [t \in Threads |-> 0]

\* A thread calls wait_for_token and reaches "with self.lock:".
RL_Call(t) ==
    /\ r_pc[t] = "idle"
    /\ UNCHANGED NotLimiter
    /\ r_pc' = [r_pc EXCEPT ![t] = "acquire"]
    /\ r_slept' = [r_slept EXCEPT ![t] = 0]
    /\ UNCHANGED <<tokens, last_update, lock, clock, wake_at, granted, grant_log>>

\* with self.lock:
RL_Acquire(t) ==
    /\ r_pc[t] = "acquire"
    /\ UNCHANGED NotLimiter
    /\ LockFree
    /\ lock' = t
    /\ r_pc' = [r_pc EXCEPT ![t] = "loop"]
    /\ UNCHANGED <<tokens, last_update, clock, wake_at, granted, grant_log, r_slept>>

\* A refill that does not cap the balance at one token.
RL_Refill_uncapped(t) ==
    /\ r_pc[t] = "loop"
    /\ UNCHANGED NotLimiter
    /\ tokens' = tokens + (clock - last_update)
    /\ last_update' = clock
    /\ r_pc' = [r_pc EXCEPT ![t] = "check"]
    /\ UNCHANGED <<lock, clock, wake_at, granted, grant_log, r_slept>>

\* Top of "while True:": now = time.time(); the refill, the cap and
\* self.last_update = now.  rate is one unit per tick.
RL_Refill(t) ==
    /\ r_pc[t] = "loop"
    /\ UNCHANGED NotLimiter
    /\ tokens' = Min(One, tokens + (clock - last_update))
    /\ last_update' = clock
    /\ r_pc' = [r_pc EXCEPT ![t] = "check"]
    /\ UNCHANGED <<lock, clock, wake_at, granted, grant_log, r_slept>>

\* A check whose sleep is one tick, whatever the deficit.
RL_Check_short(t) ==
    /\ r_pc[t] = "check"
    /\ UNCHANGED NotLimiter
    /\ IF tokens >= One
       THEN /\ r_pc' = [r_pc EXCEPT ![t] = "consume"]
            /\ UNCHANGED <<wake_at, r_slept>>
       ELSE /\ r_pc' = [r_pc EXCEPT ![t] = "sleep"]
            /\ wake_at' = [wake_at EXCEPT ![t] = clock + 1]
            /\ r_slept' = [r_slept EXCEPT ![t] = @ + 1]
    /\ UNCHANGED <<tokens, last_update, lock, clock, granted, grant_log>>

\* A check that grants whatever the balance is.
RL_Check_eager(t) ==
    /\ r_pc[t] = "check"
    /\ UNCHANGED NotLimiter
    /\ r_pc' = [r_pc EXCEPT ![t] = "consume"]
    /\ UNCHANGED <<tokens, last_update, lock, clock, wake_at, granted, grant_log, r_slept>>

\* if self.tokens >= 1.0: ... else wait_time = (1.0 - self.tokens) / self.rate;
\* if wait_time > 0: time.sleep(wait_time), inside the with block.
RL_Check(t) ==
    /\ r_pc[t] = "check"
    /\ UNCHANGED NotLimiter
    /\ IF tokens >= One
       THEN /\ r_pc' = [r_pc EXCEPT ![t] = "consume"]
            /\ UNCHANGED <<wake_at, r_slept>>
       ELSE IF One - tokens > 0
       THEN /\ r_pc' = [r_pc EXCEPT ![t] = "sleep"]
            /\ wake_at' = [wake_at EXCEPT ![t] = clock + (One - tokens)]
            /\ r_slept' = [r_slept EXCEPT ![t] = @ + 1]
       ELSE /\ r_pc' = [r_pc EXCEPT ![t] = "loop"]
            /\ UNCHANGED <<wake_at, r_slept>>
    /\ UNCHANGED <<tokens, last_update, lock, clock, granted, grant_log>>

\* self.tokens -= 1.0; return (leaving the with block releases the lock).
RL_Consume(t) ==
    /\ r_pc[t] = "consume"
    /\ UNCHANGED NotLimiter
    /\ tokens' = tokens - One
    /\ lock' = 0
    /\ granted' = granted + 1
    /\ grant_log' = Append(grant_log, [at |-> last_update, ret |-> clock])
    /\ r_pc' = [r_pc EXCEPT ![t] = "idle"]
    /\ UNCHANGED <<last_update, clock, wake_at, r_slept>>

\* time.sleep(wait_time) returns, not before wait_time has passed.
RL_Wake(t) ==
    /\ r_pc[t] = "sleep"
    /\ UNCHANGED NotLimiter
    /\ clock >= wake_at[t]
    /\ r_pc' = [r_pc EXCEPT ![t] = "loop"]
    /\ UNCHANGED <<tokens, last_update, lock, clock, wake_at, granted, grant_log, r_slept>>

\* Time passes.
RL_Tick ==
    /\ clock < MaxTime
    /\ UNCHANGED NotLimiter
    /\ clock' = clock + 1
    /\ UNCHANGED <<tokens, last_update, lock, r_pc, wake_at, granted, grant_log, r_slept>>

\* The calls made or under way.
Calls == granted + Cardinality({t \in Threads : r_pc[t] # "idle"})

\* A thread calls wait_for_token, in a run of at most MaxTokens calls.
RL_CallSome(t) == Calls < MaxTokens /\ RL_Call(t)

\* Time passes, for as long as it makes a difference to a caller: somebody
\* sleeps for a later time, or nobody is inside wait_for_token and the bucket
\* is not yet full again.
RL_Elapse ==
    /\ \/ \E t \in Threads : r_pc[t] = "sleep" /\ wake_at[t] > clock
       \/ lock = 0 /\ clock - last_update < One
    /\ UNCHANGED NotLimiter
    /\ clock' = clock + 1
    /\ UNCHANGED <<tokens, last_update, lock, r_pc, wake_at, granted, grant_log, r_slept>>

\* The steps a thread takes on its own once it holds the lock.
RL_Run(t) == RL_Refill(t) \/ RL_Check(t) \/ RL_Consume(t) \/ RL_Wake(t)

RFairNext ==
    \/ \E t \in Threads : RL_CallSome(t)
    \/ \E t \in Threads : RL_Acquire(t)
    \/ \E t \in Threads : RL_Run(t)
    \/ RL_Elapse

\* Time advances and a thread that can step does: as long as a step of the
\* limiter or of the clock is possible, one is taken.  (Only the holder of
\* the lock can run, and a run has at most MaxTokens calls, so this is all
\* that a fair handing out of the lock adds.)
RFair == WF_vars(RFairNext)

RNext ==
    \/ \E t \in Threads : RL_Call(t)
    \/ \E t \in Threads : RL_Acquire(t)
    \/ \E t \in Threads : RL_Refill(t)
    \/ \E t \in Threads : RL_Check(t)
    \/ \E t \in Threads : RL_Consume(t)
    \/ \E t \in Threads : RL_Wake(t)
    \/ RL_Tick

\* ------------------------------------------- ParallelAnnotatorAgent (the pool)

Items == 1..MaxItems

\* What the task of one item can come to: the annotation succeeded ("ok"), it
\* gave nothing ("none": no or malformed response, no valid box, all retries
\* failed), or an exception reached the collector ("raise").
TaskOutcomes == {"ok", "none", "raise"}

\* self.quality_loop.verify_annotation(path, data["bboxes"], query): the quality
\* loop handed to the pool is an AnnotationRefinementLoop, which defines no
\* verify_annotation, so the call raises AttributeError.
VerifyAnnotation == "raise"

\* A collector that gives up at the first exception.
OnWorkerFailure_abort == "returned"

\* except Exception as e: logger.error(...): the as_completed loop goes on.
OnWorkerFailure == "collect"

\* A collector that keeps only the entry it got last.
MergeInto_replace(res, i) == <<i>>

\* results.update(annotation) / annotations[result["filename"]] = {...}
MergeInto(res, i) == IF i \in Range(res) THEN res ELSE Append(res, i)

\* validation["status"] as the validator can report it ("ERROR" when the
\* validator got no response or raised).
Verdicts == {"APPROVED", "NEEDS_IMPROVEMENT", "ERROR"}

Running == {i \in 1..a_n : a_status[i] = "running"}

\* ParallelAnnotatorAgent.__init__, before any call.
AInit ==
    /\ a_quality \in BOOLEAN
    /\ a_workers = MaxWorkers
    /\ a_pc = "idle"
    /\ a_n = 0
    /\ a_status = [i \in Items |-> "none"]
    /\ a_outcome = [i \in Items |-> "-"]
    /\ a_results = <<>>
    /\ a_verdict = [i \in Items |-> "-"]

\* The pool while another component is being checked.
AQuiet == a_quality = FALSE /\ AInit

\* annotate_parallel(query, image_paths): every item is submitted to the
\* executor, results = {}.  The caller's loop makes the call only while the
\* target is not reached.
A_Call ==
    /\ a_pc = "idle"
    /\ Collected < target_count
    /\ \E n \in 0..MaxItems :
          /\ a_n' = n
          /\ a_status' = [i \in Items |-> IF i <= n THEN "queued" ELSE "none"]
    /\ a_outcome' = [i \in Items |-> "-"]
    /\ a_results' = <<>>
    /\ a_verdict' = [i \in Items |-> "-"]
    /\ a_pc' = "collect"
    /\ UNCHANGED <<a_quality, a_workers>>
    /\ UNCHANGED <<pvars, NotPool>>

\* A free worker of the ThreadPoolExecutor takes the oldest queued task.
A_Start(i) ==
    /\ i <= a_n /\ a_status[i] = "queued"
    /\ \A j \in 1..(i - 1) : a_status[j] # "queued"
    /\ Cardinality(Running) < a_workers
    /\ a_status' = [a_status EXCEPT ![i] = "running"]
    /\ UNCHANGED <<a_quality, a_workers, a_pc, a_n, a_outcome, a_results, a_verdict>>
    /\ UNCHANGED <<pvars, NotPool>>

\* The task of item i ends (annotate_single / annotate_image), whatever the
\* capability answered.
A_Finish(i) ==
    /\ i <= a_n /\ a_status[i] = "running"
    /\ a_status' = [a_status EXCEPT ![i] = "done"]
    /\ \E o \in TaskOutcomes : a_outcome' = [a_outcome EXCEPT ![i] = o]
    /\ UNCHANGED <<a_quality, a_workers, a_pc, a_n, a_results, a_verdict>>
    /\ UNCHANGED <<pvars, NotPool>>

\* One pass of "for future in as_completed(future_to_path):" on the caller's
\* thread, for a finished item.  With a quality loop the pass reaches the
\* verification of a succeeded item; a_verdict notes what the validator holds
\* of that item's boxes.
A_Collect(i) ==
    /\ a_pc = "collect"
    /\ i <= a_n /\ a_status[i] = "done"
    /\ a_status' = [a_status EXCEPT ![i] = "collected"]
    /\ LET verdict == IF a_quality THEN VerifyAnnotation ELSE "valid"
       IN  IF a_outcome[i] = "ok" /\ verdict = "valid"
           THEN a_results' = MergeInto(a_results, i) /\ UNCHANGED a_pc
           ELSE IF a_outcome[i] = "raise" \/ (a_outcome[i] = "ok" /\ verdict = "raise")
           THEN a_pc' = OnWorkerFailure /\ UNCHANGED a_results
           ELSE UNCHANGED <<a_pc, a_results>>
    /\ IF a_quality /\ a_outcome[i] = "ok"
       THEN \E v \in Verdicts : a_verdict' = [a_verdict EXCEPT ![i] = v]
       ELSE UNCHANGED a_verdict
    /\ UNCHANGED <<a_quality, a_workers, a_n, a_outcome>>
    /\ UNCHANGED <<pvars, NotPool>>

\* as_completed is exhausted and the with block has shut the executor down:
\* return results.
A_Return ==
    /\ a_pc = "collect"
    /\ \A i \in 1..a_n : a_status[i] = "collected"
    /\ a_pc' = "returned"
    /\ UNCHANGED <<a_quality, a_workers, a_n, a_status, a_outcome, a_results, a_verdict>>
    /\ UNCHANGED <<pvars, NotPool>>

\* The returned mapping as the caller iterates it: keys in insertion order.
ReturnedItems == a_results

\* The caller merges the returned mapping: state.add_annotations(annotations)
\* (annotate_tool) or MainAgent's "Add to final dataset" loop.
A_Merge ==
    /\ a_pc = "returned"
    /\ IF ctl = "MainAgent"
       THEN /\ dataset' = ma_merge(dataset, ReturnedItems, target_count)
            /\ UNCHANGED current_count
       ELSE LET r == add_annotations(dataset, current_count, ReturnedItems, target_count)
            IN  dataset' = r[1] /\ current_count' = r[2]
    /\ a_pc' = "merged"
    /\ UNCHANGED <<a_quality, a_workers, a_n, a_status, a_outcome, a_results, a_verdict>>
    /\ UNCHANGED <<ctl, target_count, pc, iteration, needed, request_count, mined,
                   curated, annotations, next_id, caught, log_error, saved, ret,
                   mine_calls, empty_mines, yield_sum, zero_yield, reached_at>>
    /\ UNCHANGED NotPool

ANext ==
    \/ A_Call
    \/ \E i \in Items : A_Start(i)
    \/ \E i \in Items : A_Finish(i)
    \/ \E i \in Items : A_Collect(i)
    \/ A_Return
    \/ A_Merge

\* ----------------------------------------------------- AnnotationRefinementLoop

\* A history entry of a round that raised: {"iteration", "error"}, without a
\* validation_status key.
ErrorEntry(n) == [iteration |-> n, validation_status |-> "<missing>", feedback |-> "<missing>"]

\* validation.get("feedback", "") as the validator can word it; "" when the
\* validator's answer carries no feedback.
Feedbacks == {"", "box too loose", "object missed"}

\* A history entry of a round that was validated.
ValidatedEntry(n, v, f) == [iteration |-> n, validation_status |-> v, feedback |-> f]

\* A prompt that keeps the feedback of the first history entry.
LastFeedback_first(history) ==
    IF history = <<>> THEN ""
    ELSE IF history[1].feedback = "<missing>" THEN ""
    ELSE history[1].feedback

\* The feedback the prompt of a round carries ("" for the prompts without a
\* "Previous feedback:" sentence): refinement_history[-1].get("feedback", "").
LastFeedback(history) ==
    IF history = <<>> THEN ""
    ELSE IF history[Len(history)].feedback = "<missing>" THEN ""
    ELSE history[Len(history)].feedback

\* self.annotator.model.generate_content([prompt, image]) of a round.
AnnotationRequest(n, f) == [iteration |-> n, to |-> "annotator", feedback |-> f]

\* self.validator.validate(image_path, query, bboxes, ...) of a round.
ValidationRequest(n) == [iteration |-> n, to |-> "validator", feedback |-> ""]

\* A loop that goes on after an approval.
Q_Approved_never(v) == FALSE

\* if validation["status"] == "APPROVED": break
Q_Approved(v) == v = "APPROVED"

\* A loop without its iteration limit.
Q_Continue_unbounded == TRUE

\* while iteration < self.max_iterations:
Q_Continue == q_iteration < q_max

\* AnnotationRefinementLoop.__init__
QInit ==
    /\ q_max \in 1..MaxRounds
    /\ q_pc = "idle"
    /\ q_iteration = 0
    /\ q_best = 0
    /\ q_history = <<>>
    /\ q_ret = [kind |-> "-", final_status |-> "-"]
    /\ q_requests = <<>>
    /\ q_candidates = {}

\* The loop while another component is being checked.
QQuiet == q_max = 1 /\ QInit

\* annotate_with_refinement(image_path, query) is called.
Q_Call ==
    /\ q_pc = "idle"
    /\ q_pc' = "loop"
    /\ UNCHANGED <<q_max, q_iteration, q_best, q_history, q_ret, q_requests, q_candidates>>
    /\ UNCHANGED NotQuality

\* One round of the while loop, whatever the capabilities answer.
Q_Round ==
    /\ q_pc = "loop" /\ Q_Continue
    /\ q_iteration' = q_iteration + 1
    /\ LET request == AnnotationRequest(q_iteration', LastFeedback(q_history))
           validation == ValidationRequest(q_iteration')
       IN
       \/ \* Image.open raised
          /\ q_history' = Append(q_history, ErrorEntry(q_iteration'))
          /\ UNCHANGED <<q_best, q_pc, q_requests, q_candidates>>
       \/ \* no response, or not a non-empty list: continue
          /\ q_requests' = Append(q_requests, request)
          /\ UNCHANGED <<q_best, q_history, q_pc, q_candidates>>
       \/ \* generate_content or json.loads raised
          /\ q_requests' = Append(q_requests, request)
          /\ q_history' = Append(q_history, ErrorEntry(q_iteration'))
          /\ UNCHANGED <<q_best, q_pc, q_candidates>>
       \/ \* a candidate, and validation["status"] raised
          /\ q_requests' = q_requests \o <<request, validation>>
          /\ q_candidates' = q_candidates \cup {q_iteration'}
          /\ q_history' = Append(q_history, ErrorEntry(q_iteration'))
          /\ UNCHANGED <<q_best, q_pc>>
       \/ \* a candidate, validated
          \E v \in Verdicts, f \in Feedbacks :
             /\ q_requests' = q_requests \o <<request, validation>>
             /\ q_candidates' = q_candidates \cup {q_iteration'}
             /\ q_history' = Append(q_history, ValidatedEntry(q_iteration', v, f))
             /\ q_best' = q_iteration'
             /\ q_pc' = IF Q_Approved(v) THEN "finish" ELSE "loop"
    /\ UNCHANGED <<q_max, q_ret>>
    /\ UNCHANGED NotQuality

\* The while condition fails.
Q_Exit ==
    /\ q_pc = "loop" /\ ~Q_Continue
    /\ q_pc' = "finish"
    /\ UNCHANGED <<q_max, q_iteration, q_best, q_history, q_ret, q_requests, q_candidates>>
    /\ UNCHANGED NotQuality

\* After the loop: refinement_stats and return.  The last history entry is
\* indexed with "validation_status", which an error entry does not have.
Q_Return ==
    /\ q_pc = "finish"
    /\ q_ret' =
         IF q_best = 0 THEN [kind |-> "None", final_status |-> "-"]
         ELSE IF q_history = <<>> THEN [kind |-> "annotation", final_status |-> "UNKNOWN"]
         ELSE IF q_history[Len(q_history)].validation_status = "<missing>"
              THEN [kind |-> "KeyError", final_status |-> "-"]
         ELSE [kind |-> "annotation",
               final_status |-> q_history[Len(q_history)].validation_status]
    /\ q_pc' = "done"
    /\ UNCHANGED <<q_max, q_iteration, q_best, q_history, q_requests, q_candidates>>
    /\ UNCHANGED NotQuality

QNext == Q_Call \/ Q_Round \/ Q_Exit \/ Q_Return

\* ------------------------------------------------ validation of an annotation

\* Boxes a response can carry: in range, on the range's ends, out of range on
\* either side, too short, too long.
SampleBoxes == {<<10, 20, 30, 40>>, <<0, 0, 1000, 1000>>, <<0, 0, 1001, 5>>,
                <<-1, 0, 5, 5>>, <<1, 2, 3>>, <<1, 2, 3, 4, 5>>}

\* A dict element of a response; numeric is FALSE when the first coordinate
\* of its "bbox" list is not a number (a string, null).
DictRecord(has_bbox, bbox, numeric) ==
    [kind |-> "dict", has_bbox |-> has_bbox, bbox |-> bbox, numeric |-> numeric]

\* Records of a response: a dict with a "bbox" list, or a dict without one.
SampleRecords ==
    {DictRecord(TRUE, b, TRUE) : b \in SampleBoxes}
        \cup {DictRecord(FALSE, <<>>, TRUE)}

\* The other elements json.loads can put into the list: a dict whose box has
\* a coordinate that is not a number, a bare list of numbers, a number.
OddRecords ==
    {DictRecord(TRUE, <<10, 20, 30, 40>>, FALSE),
     [kind |-> "list", has_bbox |-> FALSE, bbox |-> <<50, 60, 70, 80>>, numeric |-> TRUE],
     [kind |-> "list", has_bbox |-> FALSE, bbox |-> <<1, 2, 3>>, numeric |-> TRUE],
     [kind |-> "number", has_bbox |-> FALSE, bbox |-> <<>>, numeric |-> TRUE]}

\* Parsed responses: lists of at most MaxRecords records.
SampleData == UNION {[1..n -> SampleRecords] : n \in 0..MaxRecords}

\* Parsed responses with any kind of element.
AnyData == UNION {[1..n -> SampleRecords \cup OddRecords] : n \in 0..MaxRecords}

\* if 'bbox' in item and isinstance(item['bbox'], list) and len(item['bbox']) == 4:
\*     if all(0 <= coord <= 1000 for coord in bbox):
ValidRecord(item) ==
    /\ item.kind = "dict"
    /\ item.has_bbox
    /\ Len(item.bbox) = 4
    /\ item.numeric
    /\ \A i \in 1..Len(item.bbox) : 0 <= item.bbox[i] /\ item.bbox[i] <= 1000

\* The same tests raise TypeError on an element that is no container
\* ('bbox' in 5) and on a coordinate that is not a number (0 <= 'a').
RaisesTypeError(item) ==
    \/ item.kind = "number"
    \/ item.kind = "dict" /\ item.has_bbox /\ Len(item.bbox) = 4 /\ ~item.numeric

\* if isinstance(data[0], list): data = [{'label': query, 'bbox': box}
\*     for box in data if isinstance(box, list) and len(box) == 4]
FromLists(data) ==
    LET boxes == SelectSeq(data, LAMBDA box : box.kind = "list" /\ Len(box.bbox) = 4)
    IN  [i \in 1..Len(boxes) |-> DictRecord(TRUE, boxes[i].bbox, TRUE)]

\* AnnotatorService._annotate_single_image: valid_data, in the order of data.
ValidData(data) == SelectSeq(data, ValidRecord)

NoAnnotation == [ok |-> FALSE, bboxes |-> <<>>]

\* AnnotatorService._annotate_single_image from the parsed list on: None for an
\* empty list, for a first element that is neither dict nor list, when a test
\* raises (except Exception: return None) or when no record is valid, else
\* the valid records.
ServiceAnnotation(data) ==
    IF Len(data) = 0 THEN NoAnnotation
    ELSE IF data[1].kind = "number" THEN NoAnnotation
    ELSE LET items == IF data[1].kind = "list" THEN FromLists(data) ELSE data
         IN  IF \E i \in 1..Len(items) : RaisesTypeError(items[i]) THEN NoAnnotation
             ELSE IF ValidData(items) = <<>> THEN NoAnnotation
             ELSE [ok |-> TRUE, bboxes |-> ValidData(items)]

\* ParallelAnnotatorAgent.annotate_image, AnnotatorAgent.annotate and
\* annotate_with_refinement from the parsed list on: a non-empty list of dicts
\* is taken as it is.
AgentAnnotation(data) ==
    IF Len(data) = 0 THEN NoAnnotation ELSE [ok |-> TRUE, bboxes |-> data]

VInit ==
    /\ v_path \in {"AnnotatorService", "ParallelAnnotatorAgent", "AnnotatorAgent",
                   "AnnotationRefinementLoop"}
    /\ v_data \in (IF v_path = "AnnotatorService" THEN AnyData ELSE SampleData)
    /\ v_pc = "parsed"
    /\ v_result = NoAnnotation
    /\ v_dataset = {}

\* The validation while another component is being checked.
VQuiet == v_path = "AnnotatorService" /\ v_data = <<>> /\ VInit

\* The annotation of the item, from its parsed response.
V_Annotate ==
    /\ v_pc = "parsed"
    /\ v_result' = IF v_path = "AnnotatorService" THEN ServiceAnnotation(v_data)
                   ELSE AgentAnnotation(v_data)
    /\ v_pc' = "annotated"
    /\ UNCHANGED <<v_path, v_data, v_dataset>>
    /\ UNCHANGED NotValidation

\* The item's result, if any, is entered into the annotations mapping and
\* merged into dataset.
V_Merge ==
    /\ v_pc = "annotated"
    /\ v_dataset' = IF v_result.ok THEN v_dataset \cup {v_result.bboxes} ELSE v_dataset
    /\ v_pc' = "merged"
    /\ UNCHANGED <<v_path, v_data, v_result>>
    /\ UNCHANGED NotValidation

VNext == V_Annotate \/ V_Merge

\* ------------------------------------------------------------- calculate_bbox

Abs(n) == IF n < 0 THEN -n ELSE n

RECURSIVE GCD(_, _)
GCD(a, b) == IF b = 0 THEN a ELSE GCD(b, a % b)

\* The number n / d (d > 0), in lowest terms.
Q(n, d) == LET g == GCD(Abs(n), d) IN [num |-> n \div g, den |-> d \div g]

\* q * k
QMul(q, k) == Q(q.num * k, q.den)

\* Coordinates of a normalized box, and image sizes.
SampleCoords == {0, 1, 250, 999, 1000}
SampleSizes == {1, 640, 1000}

\* calculate_bbox with the x and y inputs exchanged.
calculate_bbox_swapped(normalized_bbox, image_width, image_height) ==
    IF Len(normalized_bbox) # 4 THEN [status |-> "error", bbox |-> <<>>]
    ELSE LET ymin == normalized_bbox[1]
             xmin == normalized_bbox[2]
             ymax == normalized_bbox[3]
             xmax == normalized_bbox[4]
         IN  [status |-> "success",
              bbox |-> <<QMul(Q(ymin, 1000), image_width),
                         QMul(Q(xmin, 1000), image_height),
                         QMul(Q(ymax - ymin, 1000), image_width),
                         QMul(Q(xmax - xmin, 1000), image_height)>>]

\* calculate_bbox: ymin, xmin, ymax, xmax = normalized_bbox (raising, and so
\* the error result, when the box has not four elements), then the four
\* products, as numbers.
calculate_bbox(normalized_bbox, image_width, image_height) ==
    IF Len(normalized_bbox) # 4 THEN [status |-> "error", bbox |-> <<>>]
    ELSE LET ymin == normalized_bbox[1]
             xmin == normalized_bbox[2]
             ymax == normalized_bbox[3]
             xmax == normalized_bbox[4]
         IN  [status |-> "success",
              bbox |-> <<QMul(Q(xmin, 1000), image_width),
                         QMul(Q(ymin, 1000), image_height),
                         QMul(Q(xmax - xmin, 1000), image_width),
                         QMul(Q(ymax - ymin, 1000), image_height)>>]

BInit ==
    /\ b_box \in [1..4 -> SampleCoords]
    /\ b_W \in SampleSizes
    /\ b_H \in SampleSizes
    /\ b_out = <<>>

\* The function while another component is being checked.
BQuiet == b_box = <<0, 0, 0, 0>> /\ b_W = 1 /\ b_H = 1 /\ BInit

\* A call calculate_bbox(b_box, b_W, b_H); the function keeps nothing between
\* calls.
B_Calculate ==
    /\ Len(b_out) < 2
    /\ b_out' = Append(b_out, calculate_bbox(b_box, b_W, b_H))
    /\ UNCHANGED <<b_box, b_W, b_H>>
    /\ UNCHANGED NotBbox

BNext == B_Calculate

\* ------------------------------------------- AnnotatorService._parse_json_robust

\* A response text is a sequence of lexical tokens: punctuation, the two quote
\* characters, a blank, a line break, a code fence, words and number literals.
\* Every token is maximal (no two words and no two numbers stand side by side);
\* FENCE is the token of three backquotes.
Digits == {"1", "2", "3", "4"}
Quotes == {"'", "\""}
Space == {" ", "\n"}
NoData == <<>>
JSONDecodeError == [ok |-> FALSE, pos |-> 0, out |-> NoData]

\* Index of the first token at or after i that is not whitespace.
RECURSIVE SkipWs(_, _)
SkipWs(s, i) ==
    IF i <= Len(s) /\ s[i] \in Space THEN SkipWs(s, i + 1) ELSE i

\* Index of the first token at or after i that is in the set, Len(s)+1 if none.
MinOf(S) == CHOOSE x \in S : \A y \in S : x <= y
FindFrom(s, i, set) ==
    LET found == {j \in i..Len(s) : s[j] \in set}
    IN  IF found = {} THEN Len(s) + 1 ELSE MinOf(found)

\* A JSON string that opens at s[i]: up to the next double quote; a raw line
\* break inside a string is a control character, which json.loads rejects.
ParseString(s, i) ==
    LET j == FindFrom(s, i + 1, {"\""})
    IN  IF j <= Len(s) /\ \A k \in (i + 1)..(j - 1) : s[k] # "\n"
        THEN [ok |-> TRUE, pos |-> j + 1, out |-> SubSeq(s, i, j)]
        ELSE JSONDecodeError

\* json.loads as a recursive-descent reading of the JSON grammar; the value
\* read is given back as its tokens without the insignificant whitespace.
RECURSIVE ParseValue(_, _), ParseElements(_, _, _), ParseMembers(_, _, _)
ParseValue(s, i) ==
    LET j == SkipWs(s, i)
    IN  IF j > Len(s) THEN JSONDecodeError
        ELSE IF s[j] \in Digits
             THEN [ok |-> TRUE, pos |-> j + 1, out |-> <<s[j]>>]
        ELSE IF s[j] = "\"" THEN ParseString(s, j)
        ELSE IF s[j] = "["
             THEN LET k == SkipWs(s, j + 1)
                  IN  IF k <= Len(s) /\ s[k] = "]"
                      THEN [ok |-> TRUE, pos |-> k + 1, out |-> <<"[", "]">>]
                      ELSE ParseElements(s, j + 1, <<"[">>)
        ELSE IF s[j] = "{"
             THEN LET k == SkipWs(s, j + 1)
                  IN  IF k <= Len(s) /\ s[k] = "}"
                      THEN [ok |-> TRUE, pos |-> k + 1, out |-> <<"{", "}">>]
                      ELSE ParseMembers(s, j + 1, <<"{">>)
        ELSE JSONDecodeError

ParseElements(s, i, acc) ==
    LET v == ParseValue(s, i)
        k == SkipWs(s, v.pos)
    IN  IF ~v.ok \/ k > Len(s) THEN JSONDecodeError
        ELSE IF s[k] = ","
             THEN ParseElements(s, k + 1, acc \o v.out \o <<",">>)
        ELSE IF s[k] = "]"
             THEN [ok |-> TRUE, pos |-> k + 1, out |-> acc \o v.out \o <<"]">>]
        ELSE JSONDecodeError

ParseMembers(s, i, acc) ==
    LET k == SkipWs(s, i)
        key == IF k <= Len(s) /\ s[k] = "\"" THEN ParseString(s, k)
               ELSE JSONDecodeError
        c == SkipWs(s, key.pos)
        v == IF key.ok /\ c <= Len(s) /\ s[c] = ":" THEN ParseValue(s, c + 1)
             ELSE JSONDecodeError
        e == SkipWs(s, v.pos)
    IN  IF ~v.ok \/ e > Len(s) THEN JSONDecodeError
        ELSE IF s[e] = ","
             THEN ParseMembers(s, e + 1, acc \o key.out \o <<":">> \o v.out \o <<",">>)
        ELSE IF s[e] = "}"
             THEN [ok |-> TRUE, pos |-> e + 1,
                   out |-> acc \o key.out \o <<":">> \o v.out \o <<"}">>]
        ELSE JSONDecodeError

\* json.loads(text): one value, then nothing but whitespace.
json_loads(text) ==
    LET v == ParseValue(text, 1)
    IN  IF v.ok /\ SkipWs(text, v.pos) = Len(text) + 1
        THEN [ok |-> TRUE, data |-> v.out]
        ELSE [ok |-> FALSE, data |-> NoData]

\* re.sub(r"(?<!\\)'", '"', text)
FixQuotes(s) == [i \in 1..Len(s) |-> IF s[i] = "'" THEN "\"" ELSE s[i]]

\* re.sub(r',\s*}', '}', text) and re.sub(r',\s*]', ']', text): a comma,
\* the whitespace after it and the closing token become the closing token.
RECURSIVE DropTrailingComma(_, _, _)
DropTrailingComma(s, i, close) ==
    LET found == {j \in i..Len(s) :
                    /\ s[j] = ","
                    /\ SkipWs(s, j + 1) <= Len(s)
                    /\ s[SkipWs(s, j + 1)] = close}
    IN  IF found = {} THEN SubSeq(s, i, Len(s))
        ELSE SubSeq(s, i, MinOf(found) - 1) \o <<close>>
             \o DropTrailingComma(s, SkipWs(s, MinOf(found) + 1) + 1, close)

ApplyFixes(s) ==
    DropTrailingComma(DropTrailingComma(FixQuotes(s), 1, "}"), 1, "]")

\* str.strip()
Strip(s) ==
    LET kept == {i \in 1..Len(s) : s[i] \notin Space}
    IN  IF kept = {} THEN <<>>
        ELSE SubSeq(s, MinOf(kept), CHOOSE x \in kept : \A y \in kept : y <= x)

\* The search for a fence, an optional word json, whitespace, a shortest
\* group and a fence (line 56): it matches at the first fence that has
\* another fence after it; group 1 runs from after the optional word json and
\* the whitespace to the next fence.
FenceMatch(text) ==
    LET i == FindFrom(text, 1, {"FENCE"})
        a == IF i + 1 <= Len(text) /\ text[i + 1] = "json" THEN i + 2 ELSE i + 1
        p == SkipWs(text, a)
        f == FindFrom(text, p, {"FENCE"})
    IN  IF i <= Len(text) /\ f <= Len(text)
        THEN [ok |-> TRUE, group |-> SubSeq(text, p, f - 1)]
        ELSE [ok |-> FALSE, group |-> <<>>]

\* The text the strategies after the second one work on: line 58 assigns the
\* stripped fence content to text itself.
TextAfterFence(text) ==
    IF FenceMatch(text).ok THEN Strip(FenceMatch(text).group) ELSE text

\* First closing token with no closing token after it on its own line:
\* re.search(r'[\]}](?!.*[\]}])', s), where . stops at a line break.
LastCloserOnLine(s) ==
    LET found == {i \in 1..Len(s) :
                    /\ s[i] \in {"]", "}"}
                    /\ \A k \in (i + 1)..(FindFrom(s, i + 1, {"\n"}) - 1) :
                          s[k] \notin {"]", "}"}}
    IN  IF found = {} THEN 0 ELSE MinOf(found)

\* Strategy 3, lines 67-86.
Normalise(text) ==
    LET fixed == ApplyFixes(text)
        first == FindFrom(fixed, 1, {"[", "{"})
        cut == IF first <= Len(fixed) THEN SubSeq(fixed, first, Len(fixed))
               ELSE fixed
        last == LastCloserOnLine(cut)
    IN  json_loads(IF last # 0 THEN SubSeq(cut, 1, last) ELSE cut)

\* re.search(r'\[\s*{[\s\S]*}\s*]', text): the leftmost "[" followed by "{"
\* for which a later "}" is followed by "]"; the greedy middle takes the last.
IsArrayOpen(s, i) ==
    /\ s[i] = "["
    /\ SkipWs(s, i + 1) <= Len(s)
    /\ s[SkipWs(s, i + 1)] = "{"
IsArrayClose(s, r) ==
    /\ s[r] = "}"
    /\ SkipWs(s, r + 1) <= Len(s)
    /\ s[SkipWs(s, r + 1)] = "]"
ArrayMatch(s) ==
    LET opens == {i \in 1..Len(s) :
                    /\ IsArrayOpen(s, i)
                    /\ \E r \in (SkipWs(s, i + 1) + 1)..Len(s) : IsArrayClose(s, r)}
    IN  IF opens = {} THEN [ok |-> FALSE, group |-> <<>>]
        ELSE LET i == CHOOSE x \in opens : \A y \in opens : x <= y
                 closes == {r \in (SkipWs(s, i + 1) + 1)..Len(s) : IsArrayClose(s, r)}
                 r == CHOOSE x \in closes : \A y \in closes : y <= x
             IN  [ok |-> TRUE, group |-> SubSeq(s, i, SkipWs(s, r + 1))]

\* Strategy 4, lines 89-102.
ExtractArray(text) ==
    IF ArrayMatch(text).ok THEN json_loads(ApplyFixes(ArrayMatch(text).group))
    ELSE [ok |-> FALSE, data |-> NoData]

\* bbox_pattern at position i: "[", four numbers separated by commas, "]",
\* whitespace allowed around each; gives the index after the match, 0 if none.
QuadEnd(s, i) ==
    LET n1 == SkipWs(s, i + 1)
        c1 == SkipWs(s, n1 + 1)
        n2 == SkipWs(s, c1 + 1)
        c2 == SkipWs(s, n2 + 1)
        n3 == SkipWs(s, c2 + 1)
        c3 == SkipWs(s, n3 + 1)
        n4 == SkipWs(s, c3 + 1)
        e == SkipWs(s, n4 + 1)
    IN  IF /\ e <= Len(s)
           /\ s[i] = "[" /\ s[e] = "]"
           /\ s[n1] \in Digits /\ s[n2] \in Digits
           /\ s[n3] \in Digits /\ s[n4] \in Digits
           /\ s[c1] = "," /\ s[c2] = "," /\ s[c3] = ","
        THEN e + 1 ELSE 0

\* re.findall(bbox_pattern, text), each match read by json.loads (line 117).
RECURSIVE FindQuads(_, _)
FindQuads(s, i) ==
    LET found == {j \in i..Len(s) : QuadEnd(s, j) # 0}
    IN  IF found = {} THEN <<>>
        ELSE <<json_loads(SubSeq(s, MinOf(found), QuadEnd(s, MinOf(found)) - 1)).data>>
             \o FindQuads(s, QuadEnd(s, MinOf(found)))

\* label_pattern at the word label: optional quote, whitespace, ":", whitespace,
\* a quote, one or more tokens that are not quotes, a quote.
LabelMatch(s, i) ==
    LET a == IF i + 1 <= Len(s) /\ s[i + 1] \in Quotes THEN i + 2 ELSE i + 1
        c == SkipWs(s, a)
        q == SkipWs(s, c + 1)
        e == FindFrom(s, q + 1, Quotes)
    IN  IF /\ s[i] = "label"
           /\ e <= Len(s)
           /\ s[c] = ":" /\ s[q] \in Quotes
           /\ e > q + 1
        THEN [end |-> e + 1, label |-> SubSeq(s, q + 1, e - 1)]
        ELSE [end |-> 0, label |-> <<>>]

\* re.findall(label_pattern, text, re.IGNORECASE)
RECURSIVE FindLabels(_, _)
FindLabels(s, i) ==
    LET found == {j \in i..Len(s) : LabelMatch(s, j).end # 0}
    IN  IF found = {} THEN <<>>
        ELSE <<LabelMatch(s, MinOf(found)).label>>
             \o FindLabels(s, LabelMatch(s, MinOf(found)).end)

\* The list built at lines 115-119, as its tokens.
RECURSIVE Reconstructed(_, _, _)
Reconstructed(bboxes, labels, i) ==
    IF i > Len(bboxes) THEN <<"]">>
    ELSE (IF i = 1 THEN <<>> ELSE <<",">>)
         \o <<"{", "\"", "label", "\"", ":", "\"">>
         \o (IF i <= Len(labels) THEN labels[i] ELSE <<"unknown">>)
         \o <<"\"", ",", "\"", "bbox", "\"", ":">> \o bboxes[i] \o <<"}">>
         \o Reconstructed(bboxes, labels, i + 1)

\* Strategy 5, lines 105-125.
Reconstruct(text) ==
    LET bboxes == FindQuads(text, 1)
        labels == FindLabels(text, 1)
    IN  IF bboxes # <<>>
        THEN [ok |-> TRUE, data |-> <<"[">> \o Reconstructed(bboxes, labels, 1)]
        ELSE [ok |-> FALSE, data |-> NoData]

\* The five strategies by number; the second runs only when the fence pattern
\* matches, the later ones on the text the second one left.
Strategy(k, text) ==
    CASE k = 1 -> json_loads(text)
      [] k = 2 -> IF FenceMatch(text).ok THEN json_loads(TextAfterFence(text))
                  ELSE [ok |-> FALSE, data |-> NoData]
      [] k = 3 -> Normalise(TextAfterFence(text))
      [] k = 4 -> ExtractArray(TextAfterFence(text))
      [] k = 5 -> Reconstruct(TextAfterFence(text))

\* The order in which the strategies other than the first are placed one
\* after the other.
Fallbacks_reordered == <<2, 5, 4, 3>>
Fallbacks == <<2, 3, 4, 5>>

\* _parse_json_robust(text, filename): the strategy that returned and what it
\* returned; strategy 0 and no data stand for the None of line 130.
RECURSIVE TryFrom(_, _)
TryFrom(order, text) ==
    IF order = <<>> THEN [strategy |-> 0, data |-> NoData]
    ELSE IF Strategy(Head(order), text).ok
         THEN [strategy |-> Head(order), data |-> Strategy(Head(order), text).data]
         ELSE TryFrom(Tail(order), text)

_parse_json_robust(text) == TryFrom(<<1>> \o Fallbacks, text)

\* Pieces of a model response: the repaired example of the documentation, a
\* well-formed list, code fences, prose, a bare box, a bare label, a line
\* break and a list that breaks off.
Example ==
    <<"[", "{", "'", "label", "'", ":", " ", "'", "dog", "'", ",", " ",
      "'", "bbox", "'", ":", " ", "[", "1", ",", "2", ",", "3", ",", "4", "]",
      ",", "}", "]">>
WellFormed ==
    <<"[", "{", "\"", "label", "\"", ":", "\"", "dog", "\"", ",",
      "\"", "bbox", "\"", ":", "[", "1", ",", "2", ",", "3", ",", "4", "]",
      "}", "]">>
Fragments ==
    { Example,
      WellFormed,
      <<"FENCE">>,
      <<"FENCE", "json", "\n">>,
      <<"Here", " ">>,
      <<"[", "1", ",", " ", "2", ",", "3", ",", "4", "]">>,
      <<"label", ":", " ", "'", "cat", "'", " ">>,
      <<"\n">>,
      <<"[", "{", "\"", "label", "\"", ":", "\"", "dog", "\"", ",">> }

\* The texts made of at most n pieces.
RECURSIVE Texts(_)
Texts(n) ==
    IF n = 0 THEN {<<>>}
    ELSE Texts(n - 1) \cup {t \o f : t \in Texts(n - 1), f \in Fragments}

JInit ==
    /\ j_text \in Texts(MaxParts)
    /\ j_pc = "idle"
    /\ j_ret = [strategy |-> 0, data |-> NoData]

\* The parser while another component is being checked.
JQuiet == j_text = <<>> /\ JInit

\* A call self._parse_json_robust(j_text, filename).
J_Parse ==
    /\ j_pc = "idle"
    /\ j_pc' = "returned"
    /\ j_ret' = _parse_json_robust(j_text)
    /\ UNCHANGED j_text
    /\ UNCHANGED NotParse

JNext == J_Parse

\* ------------------------------------------- google_search_images and the miners

\* What one request service.cse().list(...).execute() does: it raises (a
\* quota or authentication error of the API), or it returns n items of which
\* nolink carry no "link".
PageOutcomes ==
    {[kind |-> "raise", n |-> 0, nolink |-> 0]}
    \cup {[kind |-> "items", n |-> n, nolink |-> l] : n \in 0..PageSize, l \in 0..1}

\* The requests of one search, in order.
Scripts == [1..MaxPages -> PageOutcomes]

\* The while loop of google_search_images (lines 46-77): urls is
\* len(image_urls); a request asks for fetch_num = min(10, num_images - urls)
\* results from current_index on and is given at most that many.
RECURSIVE SearchPages(_, _, _, _)
SearchPages(num_images, current_index, urls, script) ==
    IF urls >= num_images \/ script = <<>>
    THEN [urls |-> urls, next_index |-> current_index, raised |-> FALSE]
    ELSE LET o == Head(script)
             fetch_num == Min(PageSize, num_images - urls)
             n == Min(o.n, fetch_num)
             links == n - Min(o.nolink, n)
         IN  IF o.kind = "raise"
             THEN [urls |-> urls, next_index |-> current_index, raised |-> TRUE]
             ELSE IF n = 0
             THEN [urls |-> urls, next_index |-> current_index, raised |-> FALSE]
             ELSE IF n < fetch_num
             THEN [urls |-> urls + links, next_index |-> current_index + n,
                   raised |-> FALSE]
             ELSE SearchPages(num_images, current_index + n, urls + links,
                              Tail(script))

\* google_search_images(query, num_images, start_index): without the keys it
\* returns status "error" and next_index = start_index; otherwise status
\* "success", count = len(image_urls[:num_images]) and next_index = current_index.
google_search_images(keys, num_images, start_index, script) ==
    IF ~keys
    THEN [status |-> "error", count |-> 0, next_index |-> start_index,
          hard |-> TRUE]
    ELSE LET r == SearchPages(num_images, start_index, 0, script)
         IN  [status |-> "success", count |-> Min(r.urls, num_images),
              next_index |-> r.next_index, hard |-> r.raised]

\* self.search_index after the call.
\* MinerService: unchanged when the search failed (return at line 52), else
\*   self.search_index = search_result.get("next_index", ...)
\* MinerAgent: self.search_index += len(urls) if len(urls) > 0
\*   else min(max_images, 10)
NextSearchIndex(owner, index, max_images, search_result) ==
    IF owner = "MinerService"
    THEN IF search_result.status = "error" THEN index
         ELSE search_result.next_index
    ELSE IF search_result.count > 0 THEN index + search_result.count
         ELSE index + Min(max_images, PageSize)

SInit ==
    /\ s_owner \in Miners
    /\ search_index = 1
    /\ s_fetched = {}
    /\ s_twice = {}
    /\ s_hard = FALSE
    /\ s_run = "running"
    /\ s_ret = [status |-> "none", count |-> 0]
    /\ s_calls = 0

\* The miner while another component is being checked.
SQuiet == s_owner = "MinerService" /\ SInit

\* One call mine(query, max_images) of the run and what its caller does with
\* the result.  MinerAgent's agent is taken to call the tool with the count
\* and index of the prompt and to answer with the urls the tool gave it.
\* kept is len(saved_paths): downloads fail and duplicates are removed.
\* The caller leaves its loop when the status is "error" or no path came back
\* (foundry_pipeline.py:112-124, main_agent.py: break).
S_Mine ==
    /\ s_run = "running" /\ s_calls < MaxCalls
    /\ UNCHANGED NotSearch
    /\ \E max_images \in 1..(MaxImages + 1), keys \in BOOLEAN, script \in Scripts :
          LET search_result ==
                  google_search_images(keys, max_images, search_index, script)
              got == search_index..(search_result.next_index - 1)
          IN  /\ s_fetched' = s_fetched \cup got
              /\ s_twice' = s_twice \cup (s_fetched \cap got)
              /\ s_hard' = search_result.hard
              /\ search_index' =
                    NextSearchIndex(s_owner, search_index, max_images, search_result)
              /\ \E kept \in 0..Min(search_result.count, max_images) :
                    /\ s_ret' = [status |-> IF kept > 0 THEN "success" ELSE "error",
                                 count |-> kept]
                    /\ s_run' = IF kept > 0 THEN "running" ELSE "aborted"
    /\ s_calls' = s_calls + 1
    /\ UNCHANGED s_owner

SNext == S_Mine

\* --------------------------------------------------- AnnotatorService.annotate

Images == 1..MaxImages

\* Variant of wait_time that waits one second before every retry.
wait_time_constant(attempt) == 1

\* wait_time = 1 + attempt
wait_time(attempt) == 1 + attempt

Attempted(attempt, ok) == [kind |-> "attempt", n |-> attempt, ok |-> ok]
Slept(seconds) == [kind |-> "sleep", n |-> seconds, ok |-> FALSE]

TInit ==
    /\ t_max \in 1..MaxRetries
    /\ t_n = 0
    /\ t_i = 0
    /\ t_attempt = 0
    /\ t_pc = "idle"
    /\ t_log = [i \in Images |-> <<>>]
    /\ t_status = [i \in Images |-> "none"]
    /\ t_annotations = {}

\* The annotator while another component is being checked.
TQuiet == t_max = 1 /\ TInit

\* annotate(query, image_paths) is called: annotations = {}.
T_Call ==
    /\ t_pc = "idle" /\ t_n = 0
    /\ UNCHANGED NotRetry
    /\ t_n' \in Images
    /\ t_i' = 1
    /\ t_pc' = "open"
    /\ UNCHANGED <<t_max, t_attempt, t_log, t_status, t_annotations>>

\* "for img_path in image_paths:" reaches the next image: Image.open gives
\* its size, or raises and the except clause of the loop body logs it.
T_Open ==
    /\ t_pc = "open" /\ t_i <= t_n
    /\ UNCHANGED NotRetry
    /\ \/ /\ t_attempt' = 0
          /\ t_pc' = "attempt"
          /\ UNCHANGED <<t_i, t_status>>
       \/ /\ t_status' = [t_status EXCEPT ![t_i] = "error"]
          /\ t_i' = t_i + 1
          /\ UNCHANGED <<t_attempt, t_pc>>
    /\ UNCHANGED <<t_max, t_n, t_log, t_annotations>>

\* One pass of "for attempt in range(self.max_retries):" together with what
\* follows the loop: _annotate_single_image returns a result (the entry is
\* stored, break) or None (sleep unless this was the last attempt).
T_Attempt ==
    /\ t_pc = "attempt" /\ t_attempt < t_max
    /\ UNCHANGED NotRetry
    /\ \/ /\ t_log' = [t_log EXCEPT ![t_i] = Append(@, Attempted(t_attempt, TRUE))]
          /\ t_annotations' = t_annotations \cup {t_i}
          /\ t_status' = [t_status EXCEPT ![t_i] = "annotated"]
          /\ t_i' = t_i + 1
          /\ t_pc' = "open"
          /\ UNCHANGED t_attempt
       \/ /\ IF t_attempt < t_max - 1
             THEN /\ t_log' = [t_log EXCEPT ![t_i] =
                                  @ \o <<Attempted(t_attempt, FALSE),
                                         Slept(wait_time(t_attempt))>>]
                  /\ t_attempt' = t_attempt + 1
                  /\ UNCHANGED <<t_i, t_pc, t_status>>
             ELSE /\ t_log' = [t_log EXCEPT ![t_i] =
                                  Append(@, Attempted(t_attempt, FALSE))]
                  /\ t_status' = [t_status EXCEPT ![t_i] = "failed"]
                  /\ t_i' = t_i + 1
                  /\ t_pc' = "open"
                  /\ UNCHANGED t_attempt
          /\ UNCHANGED t_annotations
    /\ UNCHANGED <<t_max, t_n>>

\* return annotations
T_Return ==
    /\ t_pc = "open" /\ t_i > t_n
    /\ UNCHANGED NotRetry
    /\ t_pc' = "returned"
    /\ UNCHANGED <<t_max, t_n, t_i, t_attempt, t_log, t_status, t_annotations>>

TNext == T_Call \/ T_Open \/ T_Attempt \/ T_Return

\* ----------------------------------------------------- FoundryBYODPipeline.run

\* FoundryBYODPipeline.__init__ with the features of the process; the metrics
\* collector is the process-wide one and starts with no run counted.
YInit ==
    /\ y_metrics \in BOOLEAN
    /\ y_pc = "idle"
    /\ y_runs = 0
    /\ y_found = 0
    /\ y_annotated = 0
    /\ y_started = 0
    /\ y_ended = 0

\* The BYOD pipeline while another component is being checked.
YQuiet == y_metrics = FALSE /\ YInit

\* run(): if self.metrics: self.metrics.start_pipeline()
Y_Run ==
    /\ y_pc \in {"idle", "returned", "raised"} /\ y_runs < MaxRuns
    /\ UNCHANGED NotByod
    /\ y_runs' = y_runs + 1
    /\ y_started' = IF y_metrics THEN y_started + 1 ELSE y_started
    /\ y_found' = 0 /\ y_annotated' = 0
    /\ y_pc' = "list"
    /\ UNCHANGED <<y_metrics, y_ended>>

\* image_paths = list_images(self.image_dir)
\* if not image_paths: return {"status": "error", "message": "No images found"}
Y_List ==
    /\ y_pc = "list"
    /\ UNCHANGED NotByod
    /\ \E n \in 0..MaxItems :
          /\ y_found' = n
          /\ y_pc' = IF n = 0 THEN "returned" ELSE "annotate"
    /\ UNCHANGED <<y_metrics, y_runs, y_annotated, y_started, y_ended>>

\* annotations = annotate_parallel(...) or self._annotator.annotate(...)
\* if not annotations: return {"status": "error", "message": "Annotation failed"}
Y_Annotate ==
    /\ y_pc = "annotate"
    /\ UNCHANGED NotByod
    /\ \E k \in 0..y_found :
          /\ y_annotated' = k
          /\ y_pc' = IF k = 0 THEN "returned" ELSE "save"
    /\ UNCHANGED <<y_metrics, y_runs, y_found, y_started, y_ended>>

\* engineer.process_item(...); output_path = engineer.save()
\* if self.metrics: record_engineering(...); self.metrics.end_pipeline()
\* return {"status": "success", ...}
Y_Save ==
    /\ y_pc = "save"
    /\ UNCHANGED NotByod
    /\ \/ /\ y_pc' = "returned"
          /\ y_ended' = IF y_metrics THEN y_ended + 1 ELSE y_ended
       \/ \* engineer.process_item / engineer.save raises: nothing catches it
          /\ y_pc' = "raised"
          /\ UNCHANGED y_ended
    /\ UNCHANGED <<y_metrics, y_runs, y_found, y_annotated, y_started>>

YNext == Y_Run \/ Y_List \/ Y_Annotate \/ Y_Save

\* ------------------------------------------------------------ specifications

\* One call of a pool and the merge of what it returns.
InitPool == YQuiet /\ DQuiet /\ RInit /\ QQuiet /\ VQuiet /\ BQuiet /\ JQuiet /\ SQuiet /\ TQuiet /\ AInit /\ PInit

SpecPool == InitPool /\ [][ANext]_vars

\* The annotation of one item and its merge.
InitValidation == YQuiet /\ PQuiet /\ DQuiet /\ RInit /\ AQuiet /\ QQuiet /\ BQuiet /\ JQuiet /\ SQuiet /\ TQuiet /\ VInit

SpecValidation == InitValidation /\ [][VNext]_vars

\* One call of annotate_with_refinement.
InitQuality == YQuiet /\ PQuiet /\ DQuiet /\ RInit /\ AQuiet /\ VQuiet /\ BQuiet /\ JQuiet /\ SQuiet /\ TQuiet /\ QInit

SpecQuality == InitQuality /\ [][QNext]_vars

\* The call runs on one thread, which keeps taking steps.
FairSpecQuality == SpecQuality /\ WF_vars(QNext)

\* Calls of calculate_bbox on one box and image size.
InitBbox == YQuiet /\ PQuiet /\ DQuiet /\ RInit /\ AQuiet /\ QQuiet /\ VQuiet /\ JQuiet /\ SQuiet /\ TQuiet /\ BInit

SpecBbox == InitBbox /\ [][BNext]_vars

\* Threads sharing one RateLimiter, with the controller and the index at rest.
InitRL == YQuiet /\ PQuiet /\ DQuiet /\ AQuiet /\ QQuiet /\ VQuiet /\ BQuiet /\ JQuiet /\ SQuiet /\ TQuiet /\ RInit

SpecRL == InitRL /\ [][RNext]_vars

\* The limiter with time advancing and fair scheduling.
FairSpecRL == InitRL /\ [][RFairNext]_vars /\ RFair

\* One duplicate index, of a miner or of a curator, with the rest idle.
InitDedup == YQuiet /\ PQuiet /\ RInit /\ AQuiet /\ QQuiet /\ VQuiet /\ BQuiet /\ JQuiet /\ SQuiet /\ TQuiet /\ DInit

SpecDedup == InitDedup /\ [][DNext]_vars

\* A controller run, with the duplicate index and the rate limiter at rest.
Init == YQuiet /\ DQuiet /\ RInit /\ AQuiet /\ QQuiet /\ VQuiet /\ BQuiet /\ JQuiet /\ SQuiet /\ TQuiet /\ PInit

Spec == Init /\ [][PNext]_vars

PFair == WF_vars(PNext)

\* The run of a controller is one sequential thread: as long as a step is
\* possible (every stage call returns), the thread takes it.
FairSpec == Spec /\ PFair

\* The layered parse on its own.
InitParse == YQuiet /\ PQuiet /\ DQuiet /\ RInit /\ AQuiet /\ QQuiet /\ VQuiet /\ BQuiet /\ SQuiet /\ TQuiet /\ JInit

SpecParse == InitParse /\ [][JNext]_vars

\* The miners' paging through the search results on its own.
InitSearch == YQuiet /\ PQuiet /\ DQuiet /\ RInit /\ AQuiet /\ QQuiet /\ VQuiet /\ BQuiet /\ JQuiet /\ TQuiet /\ SInit

SpecSearch == InitSearch /\ [][SNext]_vars

\* The retry loop of AnnotatorService.annotate on its own.
InitRetry == YQuiet /\ PQuiet /\ DQuiet /\ RInit /\ AQuiet /\ QQuiet /\ VQuiet /\ BQuiet /\ JQuiet /\ SQuiet /\ TInit

SpecRetry == InitRetry /\ [][TNext]_vars

\* ------------------------------------------- PipelineState called on its own

\* A dict of annotations as add_annotations iterates it: distinct keys in
\* insertion order.
Batches ==
    UNION {{b \in [1..n -> Items] : \A i, j \in 1..n : i # j => b[i] # b[j]} :
              n \in 0..MaxItems}

\* state.add_annotations(annotations) with any batch, as annotate_tool calls it
\* with whatever images the calling agent handed over.
PS_AddAnnotations ==
    /\ ctl = "FoundryPipeline" /\ pc = "loop"
    /\ UNCHANGED NotController
    /\ \E batch \in Batches :
          /\ annotations' = batch
          /\ LET r == add_annotations(dataset, current_count, batch, target_count)
             IN  dataset' = r[1] /\ current_count' = r[2]
    /\ UNCHANGED <<ctl, target_count, pc, iteration, needed, request_count, mined,
                   curated, next_id, caught, log_error, saved, ret, mine_calls,
                   empty_mines, yield_sum, zero_yield, reached_at>>

InitState == YQuiet /\ DQuiet /\ RInit /\ AQuiet /\ QQuiet /\ VQuiet /\ BQuiet /\ JQuiet /\ SQuiet /\ TQuiet /\ ctl = "FoundryPipeline" /\ PInit

SpecState == InitState /\ [][PS_AddAnnotations]_vars

\* FoundryBYODPipeline.run on its own.
InitByod == PQuiet /\ DQuiet /\ RInit /\ AQuiet /\ QQuiet /\ VQuiet /\ BQuiet /\ JQuiet /\ SQuiet /\ TQuiet /\ YInit

SpecByod == InitByod /\ [][YNext]_vars

\* ------------------------------------------------------------ properties

Terminated == pc \in {"done", "raised"}

IterationBound == IF ctl = "FoundryPipeline" THEN max_iterations ELSE max_loops

\* What each controller reports about a finished run.  FoundryPipeline.run
\* returns a dict with a status; MainAgent.run_pipeline returns None and logs.
ReportsFailure ==
    \/ ctl = "FoundryPipeline" /\ ret.status = "error"
    \/ ctl = "MainAgent" /\ log_error

ReportsSuccess ==
    \/ ctl = "FoundryPipeline" /\ ret.status = "success" /\ ret.output_path
    \/ ctl = "MainAgent" /\ saved /\ ~log_error

AllDiscoveryEmpty == mine_calls > 0 /\ empty_mines = mine_calls

\* C1: in every reachable state of a run the number of entries of dataset is
\* at most target_count.
C1_DatasetWithinTarget == Cardinality(dataset) <= target_count

\* A merge was handed more annotations than were needed and filled the dataset.
C1_Witness ==
    /\ pc \in {"loop", "finish"}
    /\ Len(annotations) > needed
    /\ Cardinality(dataset) = target_count

\* C2: the iteration counter only advances while collected_count < target_count
\* and iteration < max_iterations, it never exceeds max_iterations, and every run
\* terminates whatever the stages yield.
C2_BoundedAndTerminates ==
    /\ [](iteration <= IterationBound)
    /\ [][iteration' # iteration =>
            (Collected < target_count /\ iteration < IterationBound)]_vars
    /\ <>Terminated

\* A run stopped by the safety bound, short of its target.
C2_Witness ==
    /\ pc = "done"
    /\ iteration = IterationBound
    /\ Collected < target_count

\* C3 (as stated): every iteration computes needed = target_count -
\* collected_count and asks discovery for exactly needed items.
C3_RequestsExactlyNeeded ==
    [][(pc = "loop" /\ pc' = "mine") =>
        (needed' = target_count - Collected /\ request_count' = needed')]_vars

\* C3 (amended): every iteration computes needed = target_count -
\* collected_count; MainAgent.run_pipeline asks discovery for exactly needed
\* items, FoundryPipeline.run asks for 2 * needed.
C3_RequestPerController ==
    [][(pc = "loop" /\ pc' = "mine") =>
        /\ needed' = target_count - Collected
        /\ request_count' = IF ctl = "FoundryPipeline" THEN 2 * needed'
                                                       ELSE needed']_vars

\* A later iteration asks discovery after part of the target was collected.
C3_Witness ==
    /\ pc = "mine"
    /\ iteration >= 2
    /\ 0 < needed /\ needed < target_count

\* C4 (as stated): when every discovery call returns 0 items the run ends
\* after 2 consecutive empty iterations, with collected = 0 and a failure
\* outcome.
C4_StopsAfterTwoEmpty ==
    (pc = "done" /\ AllDiscoveryEmpty) =>
        /\ empty_mines = 2 /\ iteration = 2
        /\ Collected = 0
        /\ ReportsFailure

\* C4 (amended): the controller leaves the loop as soon as one discovery call
\* returns 0 items; when every discovery call returned 0 items the run ends
\* after 1 iteration with collected = 0 and nothing written, MainAgent logging
\* the failure and FoundryPipeline returning status "success" with 0 images.
C4_StopsAfterOneEmpty ==
    /\ [][(pc = "mine" /\ empty_mines' = empty_mines + 1) => pc' = "finish"]_vars
    /\ []((pc = "done" /\ AllDiscoveryEmpty) =>
            /\ empty_mines = 1 /\ iteration = 1
            /\ Collected = 0 /\ dataset = {} /\ ~saved
            /\ ctl = "MainAgent" => log_error
            /\ ctl = "FoundryPipeline" =>
                 (ret.status = "success" /\ ret.images_collected = 0
                    /\ ~ret.output_path))

\* A finished run all of whose discovery calls came back empty.
C4_Witness == pc = "done" /\ AllDiscoveryEmpty

C6_OutcomeByCount ==
    pc = "done" =>
        /\ Collected = target_count => ReportsSuccess
        /\ Collected = 0 => ReportsFailure
        /\ (0 < Collected /\ Collected < target_count /\ iteration = IterationBound)
              => (ReportsSuccess /\ ~ReportsFailure)

C8_NeverRaises ==
    ctl = "FoundryPipeline" => pc # "raised"

\* C9: every two fingerprints held in a duplicate index are at Hamming distance
\* >= 5, after any sequence of discovery or verification calls.
C9_AcceptedPairwiseFar ==
    \A i, j \in 1..Len(seen_hashes) :
        i # j => Hamming(seen_hashes[i], seen_hashes[j]) >= Threshold

\* The index holds two fingerprints and has turned a near-duplicate away.
C9_Witness ==
    /\ Len(seen_hashes) >= 2
    /\ d_dups
    /\ d_pc = "idle"

\* C10: with threads calling wait_for_token concurrently, the token balance is
\* never negative and never above the capacity of one token, and each return
\* of wait_for_token takes exactly one token from the balance.
C10_BalanceWithinCapacity ==
    /\ [](0 <= tokens /\ tokens <= One)
    /\ [][granted' # granted => (granted' = granted + 1 /\ tokens' = tokens - One)]_vars

\* Two calls have returned while another thread contends: one thread sleeps
\* holding the lock and the other waits for it.
C10_Witness ==
    /\ granted >= 2
    /\ \E t, u \in Threads : r_pc[t] = "sleep" /\ r_pc[u] = "acquire"

CeilDiv(a, b) == (a + b - 1) \div b

\* C11: in every time window of length T the number of calls of wait_for_token
\* that are granted is at most ceil(T * rate) + 1.  The grants i..j are
\* j - i + 1 grants; by the times the limiter read they span grant_log[j].at -
\* grant_log[i].at ticks, and their returns, read on a clock of whole ticks, lie
\* in a window shorter than grant_log[j].ret - grant_log[i].ret + 1 ticks.
C11_GrantsPerWindow ==
    \A i, j \in 1..Len(grant_log) :
        i <= j =>
            /\ j - i + 1 <= CeilDiv(grant_log[j].at - grant_log[i].at, TicksPerToken) + 1
            /\ j - i + 1 <= CeilDiv(grant_log[j].ret - grant_log[i].ret + 1, TicksPerToken) + 1

\* Three grants, two of them returning in the same tick (the first holder was
\* delayed between reading the time and returning).
C11_Witness ==
    /\ Len(grant_log) >= 3
    /\ \E i \in 1..(Len(grant_log) - 1) : grant_log[i].ret = grant_log[i + 1].ret
    /\ \E t, u \in Threads : t # u /\ r_pc[t] = "idle" /\ r_pc[u] # "idle"

\* C12: every discovery call (and every call of the vision capability) is
\* preceded by its own token grant of the shared RateLimiter: there are never
\* more discovery calls than grants.
C12_CallsAreGranted == mine_calls <= granted

\* The call of annotate_parallel has returned.
PoolReturned == a_pc \in {"returned", "merged"}

\* The items of the call whose task succeeded (and, with the quality loop,
\* were accepted by it).
Succeeded ==
    {i \in 1..a_n : a_outcome[i] = "ok" /\ (a_quality => VerifyAnnotation = "valid")}

C14_OrderIndependent ==
    PoolReturned =>
        /\ Range(a_results) = Succeeded
        /\ Len(a_results) = Cardinality(Succeeded)

\* All items succeeded and were entered in an order other than the order of
\* submission.
C14_Witness ==
    /\ PoolReturned
    /\ Len(a_results) = MaxItems
    /\ \E j \in 1..(Len(a_results) - 1) : a_results[j] > a_results[j + 1]

\* C15: the merge into dataset cannot interleave with worker completions (it
\* runs on the caller's thread once every worker has been collected), and it
\* never takes the collected count above target_count.
C15_MergeAfterWorkers ==
    /\ [](Collected <= target_count)
    /\ [][(dataset' # dataset \/ current_count' # current_count) =>
            (a_pc = "returned" /\ \A i \in 1..a_n : a_status[i] = "collected")]_vars

\* The pool returned more results than were needed and the merge stopped at
\* the target.
C15_Witness ==
    /\ a_pc = "merged"
    /\ Len(a_results) > target_count
    /\ Collected = target_count

\* C16: annotate_with_refinement runs at most max_iterations rounds and always
\* ends, whatever each round's annotation and validation come to.
C16_RefinementTerminates ==
    /\ [](q_iteration <= q_max)
    /\ <>(q_pc = "done")

\* The call ended after max_iterations rounds none of which was approved: one
\* gave no response, one raised, one was validated.
C16_Witness ==
    /\ q_pc = "done"
    /\ q_max = MaxRounds /\ q_iteration = q_max
    /\ Len(q_history) = 2
    /\ q_history[1].validation_status = "<missing>"
    /\ q_history[2].validation_status = "NEEDS_IMPROVEMENT"

\* C17: whenever a round produced a candidate, annotate_with_refinement returns
\* a result whose final_status is the validation verdict of the last entry of
\* its refinement history, also when a later round raised an error.
C17_FinalStatusIsLastVerdict ==
    (q_pc = "done" /\ q_best # 0) =>
        /\ q_ret.kind = "annotation"
        /\ q_ret.final_status \in Verdicts
        /\ q_ret.final_status = q_history[Len(q_history)].validation_status

\* C18: every entry of dataset holds at least one region whose box has
\* exactly four coordinates, each within [0, 1000], whichever code annotated.
C18_EntriesHaveValidRegion ==
    \A bboxes \in v_dataset : \E i \in 1..Len(bboxes) : ValidRecord(bboxes[i])

\* q = n / d as numbers.
QEquals(q, n, d) == q.den > 0 /\ q.num * d = n * q.den

\* C19: for a box [ymin, xmin, ymax, xmax] within 0..1000, calculate_bbox
\* returns x = (xmin/1000)*W, y = (ymin/1000)*H, w = ((xmax-xmin)/1000)*W,
\* h = ((ymax-ymin)/1000)*H, and calls with the same inputs return the same.
C19_BboxFormula ==
    \A k \in 1..Len(b_out) :
        /\ b_out[k].status = "success"
        /\ QEquals(b_out[k].bbox[1], b_box[2] * b_W, 1000)
        /\ QEquals(b_out[k].bbox[2], b_box[1] * b_H, 1000)
        /\ QEquals(b_out[k].bbox[3], (b_box[4] - b_box[2]) * b_W, 1000)
        /\ QEquals(b_out[k].bbox[4], (b_box[3] - b_box[1]) * b_H, 1000)
        /\ b_out[k] = b_out[1]

\* Two calls on a box whose axes differ, on an image that is not square.
C19_Witness ==
    /\ Len(b_out) = 2
    /\ b_box = <<1, 250, 999, 1000>>
    /\ b_W = 640 /\ b_H = 1000


\* C20: The layered parse tries direct parse (1), code-fence stripping (2),
\* quote and trailing-comma normalisation (3), array extraction (4) and
\* coordinate-quadruple reconstruction (5) in this order: what it returns is
\* the result of the first of them that succeeds on the text, and it returns
\* failure exactly when all five fail.  The text
\* [{'label': 'dog', 'bbox': [1,2,3,4],}] gives exactly one record, with label
\* dog and box [1,2,3,4].
FirstSuccess(text) ==
    IF \E k \in 1..5 : Strategy(k, text).ok
    THEN CHOOSE k \in 1..5 :
            /\ Strategy(k, text).ok
            /\ \A m \in 1..(k - 1) : ~Strategy(m, text).ok
    ELSE 0
C20_FirstSuccessfulStrategy ==
    j_pc = "returned" =>
        /\ j_ret.strategy = FirstSuccess(j_text)
        /\ j_ret.strategy # 0 => j_ret.data = Strategy(j_ret.strategy, j_text).data
        /\ j_ret.strategy = 0 => j_ret.data = NoData
        /\ j_text = Example => j_ret.data = WellFormed
C20_Witness ==
    /\ j_pc = "returned"
    /\ j_text = Example
    /\ j_ret = [strategy |-> 3, data |-> WellFormed]

\* C21: The verification stage, called with the cap needed, returns at most
\* needed items (and asks the model about no further image once it has kept
\* needed of them): what the controller holds as curated when it goes on to
\* annotate is never more than the needed count of the iteration.
C21_CuratedWithinNeeded == pc = "annotate" => Len(curated) <= needed

\* C22: A call mine(query, max_images) returns at most max_images items, and
\* no item it returns is a near-duplicate (Hamming distance below 5) of
\* another item it returns or of an item an earlier call of the run returned.
\* The items a miner returned are the fingerprints it holds, those of the
\* current call being the last d_out of them.
C22_MineReturnsFewAndFar ==
    d_owner \in Miners =>
        /\ d_out <= d_max
        /\ d_out <= Len(seen_hashes)
        /\ \A i \in (Len(seen_hashes) - d_out + 1)..Len(seen_hashes) :
           \A j \in 1..Len(seen_hashes) :
              i # j => Hamming(seen_hashes[i], seen_hashes[j]) >= Threshold
C22_Witness ==
    /\ d_owner = "MinerAgent" /\ d_pc = "idle"
    /\ d_out = 1 /\ Len(seen_hashes) = 2
    /\ d_dups /\ d_left > 0

\* C23: Across the mine calls of one run the search start index is threaded
\* forward from the previous call's next index: it never decreases, it lies
\* past every result position already fetched, and no result position is
\* fetched twice.
C23_PagesForward ==
    /\ [](s_twice = {} /\ \A p \in s_fetched : p < search_index)
    /\ [][search_index' >= search_index]_vars

\* C24: When the search API reports a hard error (authentication, quota) in a
\* mine call, the run is aborted: its caller leaves the loop, so that no
\* further discovery, verification or annotation call is made.
C24_HardErrorAborts == s_hard => s_run = "aborted"

\* The log of an image on which m attempts were made, the last one
\* succeeding iff ok: attempt 0, 1 second, attempt 1, 2 seconds, attempt 2 ...
C25_Log(m, ok) ==
    [j \in 1..(2 * m - 1) |->
        IF j % 2 = 1
        THEN [kind |-> "attempt", n |-> (j - 1) \div 2, ok |-> (ok /\ j = 2 * m - 1)]
        ELSE [kind |-> "sleep", n |-> j \div 2, ok |-> FALSE]]

\* C25: for each image annotate makes at most max_retries attempts, stops at
\* the first one that succeeds, sleeps 1 + attempt seconds between a failed
\* attempt and the next one and not after the last one, and an image whose
\* attempts all fail has no entry in the result while the images after it
\* are still processed.
C25_RetriesPerItem ==
    /\ \A i \in Images :
          /\ t_status[i] = "annotated" =>
                /\ \E m \in 1..t_max : t_log[i] = C25_Log(m, TRUE)
                /\ i \in t_annotations
          /\ t_status[i] = "failed" =>
                /\ t_log[i] = C25_Log(t_max, FALSE)
                /\ i \notin t_annotations
          /\ t_status[i] = "error" => (t_log[i] = <<>> /\ i \notin t_annotations)
          /\ t_status[i] = "none" =>
                /\ i \notin t_annotations
                /\ \/ t_log[i] = <<>>
                   \/ /\ i = t_i /\ t_pc = "attempt" /\ t_attempt < t_max
                      /\ t_log[i] = C25_Log(t_attempt, FALSE) \o <<[kind |-> "sleep", n |-> t_attempt, ok |-> FALSE]>>
    /\ t_pc = "returned" => \A i \in 1..t_n : t_status[i] # "none"

C25_Witness ==
    /\ t_pc = "returned" /\ t_max = 3 /\ t_n = 2
    /\ t_status[1] = "failed" /\ Len(t_log[1]) = 5 /\ t_log[1][4].n = 2
    /\ t_status[2] = "annotated" /\ Len(t_log[2]) = 3
    /\ t_annotations = {2}

\* C26: no annotation or validation request is issued after a round whose
\* verdict is APPROVED: the approved entry is the last one of the history,
\* its round is the last round, and no request belongs to a later round.
C26_StopsAtFirstApproved ==
    \A k \in 1..Len(q_history) :
        q_history[k].validation_status = "APPROVED" =>
            /\ k = Len(q_history)
            /\ q_iteration = q_history[k].iteration
            /\ q_pc \in {"finish", "done"}
            /\ \A r \in 1..Len(q_requests) : q_requests[r].iteration <= q_history[k].iteration

C26_Witness ==
    /\ q_pc = "done" /\ q_max = 3 /\ q_iteration = 2
    /\ Len(q_history) = 2
    /\ q_history[1].validation_status = "NEEDS_IMPROVEMENT"
    /\ q_history[2].validation_status = "APPROVED"
    /\ Len(q_requests) = 4

\* The annotation requests among the requests made.
C27_Sent == {r \in 1..Len(q_requests) : q_requests[r].to = "annotator"}

\* The history entries written before round n.
C27_Before(n) == {k \in 1..Len(q_history) : q_history[k].iteration < n}

C28_ReturnsLatestCandidate ==
    q_pc = "done" =>
        /\ q_ret.kind = "annotation" =>
              (q_candidates # {} /\ \A n \in q_candidates : n <= q_best /\ q_best \in q_candidates)
        /\ q_ret.kind # "annotation" => q_candidates = {}

\* A record that carries a box of four numeric coordinates within [0, 1000].
C29_CarriesValidBox(item) ==
    /\ item.kind = "dict" /\ item.has_bbox /\ item.numeric
    /\ Len(item.bbox) = 4
    /\ \A i \in 1..4 : item.bbox[i] \in 0..1000

\* C29: of a response made of records (no bare lists), record validation
\* keeps exactly the records that carry a box of four coordinates within
\* [0, 1000], in their order, whatever the other records are, and reports a
\* failure exactly when no record is valid.
C29_KeepsExactlyTheValid ==
    (/\ v_path = "AnnotatorService" /\ v_pc # "parsed"
     /\ \A i \in 1..Len(v_data) : v_data[i].kind # "list") =>
        /\ v_result.bboxes = SelectSeq(v_data, C29_CarriesValidBox)
        /\ v_result.ok <=> SelectSeq(v_data, C29_CarriesValidBox) # <<>>

\* C30 as stated: the returns of two consecutive grants lie at least 1/rate
\* (TicksPerToken ticks) apart.
C30_ReturnsSpaced ==
    \A i \in 1..(Len(grant_log) - 1) :
        grant_log[i + 1].ret - grant_log[i].ret >= TicksPerToken

\* C30, amended: two consecutive grants are at least 1/rate apart by the times
\* the limiter read when it took the tokens, a grant returns before the next
\* one reads the time, and nobody sleeps before the first grant.
C30_GrantsSpaced ==
    /\ \A i \in 1..(Len(grant_log) - 1) :
          /\ grant_log[i + 1].at - grant_log[i].at >= TicksPerToken
          /\ grant_log[i].ret <= grant_log[i + 1].at
    /\ \A i \in 1..Len(grant_log) : grant_log[i].at <= grant_log[i].ret
    /\ granted = 0 => \A t \in Threads : r_pc[t] # "sleep" /\ wake_at[t] = 0

\* The second grant went to a thread that slept for it, exactly 1/rate after
\* the first by the limiter's readings, and returned less than 1/rate after
\* the return of the first.
C30_Witness ==
    /\ Len(grant_log) = 2
    /\ grant_log[1].at = 0
    /\ grant_log[2].at = TicksPerToken
    /\ grant_log[2].ret - grant_log[1].ret < TicksPerToken
    /\ \E t \in Threads : wake_at[t] = TicksPerToken /\ r_pc[t] = "idle"

\* C31: a caller sleeping inside wait_for_token for its deficit blocks only
\* itself: it does not hold the lock while it sleeps, so a thread that has
\* called wait_for_token meanwhile can enter and evaluate the bucket.
C31_SleeperBlocksOnlyItself ==
    \A t \in Threads :
        r_pc[t] = "sleep" =>
            /\ lock # t
            /\ \A u \in Threads \ {t} : r_pc[u] = "acquire" => ENABLED RL_Acquire(u)

\* C32: with time advancing and the lock scheduled fairly every call of
\* wait_for_token returns, for every thread, and a caller sleeps at most
\* once before it is granted.
C32_EveryCallReturns ==
    /\ \A t \in Threads : [](r_pc[t] # "idle" => <>(r_pc[t] = "idle"))
    /\ [](\A t \in Threads : r_slept[t] <= 1)

\* A thread has returned after sleeping once while another caller was
\* waiting for the lock, and that caller now sleeps in turn.
C32_Witness ==
    /\ granted = 2
    /\ \E t, u \in Threads :
          /\ t # u
          /\ r_pc[t] = "idle" /\ r_slept[t] = 1
          /\ r_pc[u] = "sleep" /\ r_slept[u] = 1

\* C33: in MinerService.mine and MinerAgent.mine a candidate is accepted
\* exactly when its Hamming distance to every fingerprint of the index is at
\* least 5 (5 is accepted, 4 is turned away); accepting it appends exactly its
\* fingerprint, and a duplicate or a candidate whose download or hashing
\* failed leaves the index as it was.
C33_AcceptsExactlyTheFar ==
    [][(d_owner \in Miners /\ d_pc = "loop" /\ d_left' < d_left) =>
          /\ d_last'.outcome \in {"accepted", "duplicate", "failed"}
          /\ d_last'.outcome = "accepted" =>
                /\ ~d_last'.near
                /\ Len(seen_hashes') = Len(seen_hashes) + 1
                /\ SubSeq(seen_hashes', 1, Len(seen_hashes)) = seen_hashes
                /\ \A i \in 1..Len(seen_hashes) :
                      Hamming(seen_hashes'[Len(seen_hashes')], seen_hashes[i]) >= 5
          /\ d_last'.outcome = "duplicate" =>
                /\ d_last'.near
                /\ seen_hashes' = seen_hashes
          /\ d_last'.outcome = "failed" => seen_hashes' = seen_hashes]_vars

\* A miner has turned a duplicate away and has then accepted a candidate at
\* distance exactly 5 from the fingerprint of the index.
C33_Witness ==
    /\ d_owner \in Miners /\ d_dups
    /\ d_last.outcome = "accepted"
    /\ Len(seen_hashes) = 2
    /\ Hamming(seen_hashes[1], seen_hashes[2]) = 5

\* C34: the duplicate index of CuratorAgent holds the fingerprints of accepted
\* items only: a fingerprint enters the index only in a step that accepts its
\* item, so a candidate rejected by verification leaves none.
C34_IndexOfAcceptedOnly ==
    [][Len(seen_hashes') > Len(seen_hashes) => d_last'.outcome = "accepted"]_vars

\* C35: with the quality loop enabled, annotate_parallel returns exactly the
\* items whose annotation succeeded and which the quality loop accepted; an
\* item whose annotation succeeded and whose validation verdict is APPROVED is
\* in the result.
C35_ReturnsTheApproved ==
    (PoolReturned /\ a_quality) =>
        /\ \A i \in Range(a_results) : a_outcome[i] = "ok" /\ a_verdict[i] = "APPROVED"
        /\ \A i \in 1..a_n :
              (a_outcome[i] = "ok" /\ a_verdict[i] = "APPROVED") => i \in Range(a_results)

\* C36: an iteration whose annotation stage yields zero results does not end
\* the run: while collected < target and the iteration bound is not reached
\* the controller goes on towards the next iteration.
C36_ZeroAnnotatedContinues ==
    [][(/\ pc = "annotate" /\ pc' # "annotate"
        /\ caught' = caught /\ annotations' = <<>>
        /\ Collected < target_count
        /\ iteration < (IF ctl = "MainAgent" THEN max_loops ELSE max_iterations)) =>
            pc' \in {"merge", "loop"}]_vars

\* C37: after any sequence of add_annotations calls, with batches that may
\* repeat a key already in dataset, current_count is the number of keys of
\* dataset.
C37_CountEqualsKeys == current_count = Cardinality(dataset)

\* The items of S as a mapping filled in the order of submission.
InSubmissionOrder(S) ==
    CHOOSE s \in [1..Cardinality(S) -> S] :
        \A i, j \in 1..Cardinality(S) : i < j => s[i] < s[j]

\* What the merge into an empty dataset enters when the workers complete in
\* the order of submission.
MergedInSubmissionOrder ==
    IF ctl = "MainAgent"
    THEN ma_merge({}, InSubmissionOrder(Range(a_results)), target_count)
    ELSE add_annotations({}, 0, InSubmissionOrder(Range(a_results)), target_count)[1]

\* C38: when a batch holds more results than are still needed, the set of
\* items the merge enters into dataset is the same for every completion order
\* of the workers: it is the set entered when they complete in the order of
\* submission.
C38_MergeIndependentOfOrder ==
    (a_pc = "merged" /\ Len(a_results) > target_count) =>
        dataset = MergedInSubmissionOrder

\* C39: in discovery, turning a download away as a duplicate never removes the
\* stored file of an accepted item: when mine returns, every path returned by
\* this or an earlier call still exists, also when the candidate had the very
\* bytes (and so the file name) of an accepted item.
C39_AcceptedFilesRemain ==
    (d_owner \in Miners /\ d_pc = "idle") => ~d_removed

\* C40: on every exit path of a pipeline run with metrics enabled (normal
\* completion, no images found, no annotations generated), each call of
\* start_pipeline has been followed by exactly one call of end_pipeline when
\* the run returns.
C40_EveryStartIsEnded ==
    (y_metrics /\ y_pc = "returned") => y_ended = y_started

====
